---- MODULE Spec2Model ----
(***************************************************************************)
(* tgcp: the resource-driven navigation and dispatch engine (src/app.rs),  *)
(* driven by the key handlers of the event loop (src/main.rs).             *)
(*                                                                         *)
(* Conventions.                                                            *)
(*  - A Rust String that is typed, searched or compared by substring is a  *)
(*    sequence of one-character strings (Text("ab") is <<"a","b">>).       *)
(*    Resource keys, modes and zone/project names are only compared for    *)
(*    equality and stay TLA+ strings; Chars maps a command word to its     *)
(*    characters.                                                          *)
(*  - Option<T> is a sequence of length at most one: <<>> is None and      *)
(*    <<x>> is Some(x).                                                    *)
(*  - Vec indices are 0-based as in the code: At(v, i) is v[i].            *)
(*  - app is the App struct.  Its field requests is not a field of the     *)
(*    struct: it is the sequence of calls the current operation has made   *)
(*    on the dispatch layer (list_resources / execute_action through       *)
(*    self.client), emptied when an operation starts.  Its field           *)
(*    action_seen is likewise not a field of the struct: it holds the      *)
(*    mode and the loading flag as they were when the operation under way  *)
(*    called execute_action, and is None until then.                       *)
(*  - App.describe_scroll (a rendering offset), App.config (persistence)   *)
(*    and the tracing calls are left out; App.client carries the same      *)
(*    project and zone as App.project and App.zone.                        *)
(***************************************************************************)
EXTENDS Integers, Sequences, FiniteSets, TLC

\* app:  the App struct.
\* pc:   where the program is: "start" (App::new has returned, main has not
\*       yet fetched), "loop" (inside run_app) or "quit" (run_app has returned).
\* last: the operation handled last (the key and the branch it took); a history
\*       variable that no operation reads.
\* RESOURCE_FILES: the embedded catalog documents, in order.
\* REGISTRY: the OnceLock cell that holds the catalog once it is built.
\* dispatch: a call of the dispatch layer (src/gcp/dispatch.rs) taken on its
\*       own, with its arguments and, once it has returned, its result; None
\*       while the program or the engine is the one running.
VARIABLES app, pc, last, RESOURCE_FILES, REGISTRY, dispatch

vars == <<app, pc, last, RESOURCE_FILES, REGISTRY, dispatch>>

(***************************************************************************)
(* Bounds of the model.                                                    *)
(***************************************************************************)
\* The listing API answers with at most this many items.
MaxItems == 2
\* The user types at most this many characters of filter text.
MaxFilterLen == 1

(***************************************************************************)
(* Generic helpers.                                                        *)
(***************************************************************************)
None == <<>>
Some(x) == <<x>>
IsSome(o) == Len(o) > 0
IsNone(o) == Len(o) = 0
Unwrap(o) == o[1]

\* v[i] with a 0-based index (Vec indexing).
At(v, i) == v[i + 1]
\* Vec::get: Some(v[i]) when in range.
Get(v, i) == IF i >= 0 /\ i < Len(v) THEN Some(v[i + 1]) ELSE None
Min(a, b) == IF a < b THEN a ELSE b
\* usize::saturating_sub
SatSub(a, b) == IF a >= b THEN a - b ELSE 0
\* The elements of a sequence.
Range(v) == {v[i] : i \in 1..Len(v)}

\* str::contains on character sequences: needle occurs in hay.
Contains(hay, needle) ==
    \E i \in 0..(Len(hay) - Len(needle)) :
        \A j \in 1..Len(needle) : hay[i + j] = needle[j]

\* char::to_lowercase over the characters the model uses.
LowerChar(c) ==
    CASE c = "S" -> "s"
      [] c = "V" -> "v"
      [] OTHER -> c

\* str::to_lowercase
ToLowercase(t) == [i \in 1..Len(t) |-> LowerChar(t[i])]


\* The characters of the words the model types, lists and matches.
Chars ==
    [w \in {"vm-instances", "disks", "snapshots", "bq-datasets", "projects", "zones",
            "zone", "project", "back", "q", "quit", "p2", "z9"} |->
        CASE w = "vm-instances" -> <<"v","m","-","i","n","s","t","a","n","c","e","s">>
          [] w = "disks"        -> <<"d","i","s","k","s">>
          [] w = "snapshots"    -> <<"s","n","a","p","s","h","o","t","s">>
          [] w = "bq-datasets"  -> <<"b","q","-","d","a","t","a","s","e","t","s">>
          [] w = "projects"     -> <<"p","r","o","j","e","c","t","s">>
          [] w = "zones"        -> <<"z","o","n","e","s">>
          [] w = "zone"         -> <<"z","o","n","e">>
          [] w = "project"      -> <<"p","r","o","j","e","c","t">>
          [] w = "back"         -> <<"b","a","c","k">>
          [] w = "q"            -> <<"q">>
          [] w = "quit"         -> <<"q","u","i","t">>
          [] w = "p2"           -> <<"p","2">>
          [] w = "z9"           -> <<"z","9">>]

(***************************************************************************)
(* Items: the semi-structured values the listing API returns.  An item has *)
(* the two fields the catalog's name_field and id_field name; a field is   *)
(* absent (None) or a JSON string, which is either plain text or a         *)
(* "projects/..." resource path (url = TRUE).                              *)
(***************************************************************************)
JsonString(text) == Some([url |-> FALSE, text |-> text])
JsonPath(text) == Some([url |-> TRUE, text |-> text])

ItemPool ==
    << [name |-> JsonString(<<"V","1">>),   id |-> JsonString(<<"1">>)],
       [name |-> None,                      id |-> JsonString(<<"k","2">>)],
       [name |-> JsonPath(<<"p","/","V">>), id |-> None] >>

RECURSIVE Pick(_, _, _)
Pick(pool, S, i) ==
    IF i > Len(pool) THEN <<>>
    ELSE (IF i \in S THEN <<pool[i]>> ELSE <<>>) \o Pick(pool, S, i + 1)

\* What a successful list request can return: the listed items, in the API's order.
ListResults == {Pick(ItemPool, S, 1) : S \in SUBSET (1..Min(MaxItems, Len(ItemPool)))}

Items == Range(ItemPool)

\* The sentinel of extract_json_value.
Sentinel == <<"-">>

RECURSIVE LastSegment(_)
\* s.split('/').next_back(): the text after the last '/'.
LastSegment(t) ==
    IF t = <<>> THEN <<>>
    ELSE IF t[Len(t)] = "/" THEN <<>>
    ELSE LastSegment(SubSeq(t, 1, Len(t) - 1)) \o <<t[Len(t)]>>

\* format_json_value on a string value.
format_json_value(v) == IF v.url THEN LastSegment(v.text) ELSE v.text

\* extract_json_value(item, path) for the paths "name" and "id".
extract_json_value(item, path) ==
    LET f == IF path = "name" THEN item.name ELSE item.id IN
    IF IsSome(f) THEN format_json_value(Unwrap(f)) ELSE Sentinel

\* Value::to_string of an item, as the filter fallback searches it: the
\* texts of its fields in key order (id before name).
ItemToString(item) ==
    (IF IsSome(item.id) THEN Unwrap(item.id).text ELSE <<>>)
        \o (IF IsSome(item.name) THEN Unwrap(item.name).text ELSE <<>>)

(***************************************************************************)
(* The resource catalog (get_registry).  The embedded documents are data;  *)
(* the model uses a three-level catalog: vm-instances > disks > snapshots, *)
(* and bq-datasets, a top-level resource of the shipped catalog.            *)
(***************************************************************************)
Action(display_name, shortcut, confirm) ==
    [display_name |-> display_name, shortcut |-> shortcut, confirm |-> confirm]
Confirm(message, destructive) == [message |-> message, destructive |-> destructive]
SubResource(resource_key, shortcut) == [resource_key |-> resource_key, shortcut |-> shortcut]

Registry ==
    [k \in {"vm-instances", "disks", "snapshots", "bq-datasets"} |->
        CASE k = "vm-instances" ->
               [name_field |-> "name", id_field |-> "id",
                actions |-> << Action("Start", Some("s"), None),
                               Action("Delete", Some("ctrl+d"),
                                      Some(Confirm("Delete {name}?", TRUE))) >>,
                sub_resources |-> << SubResource("disks", "v") >>]
          [] k = "disks" ->
               [name_field |-> "name", id_field |-> "id",
                actions |-> << Action("Delete", Some("ctrl+d"),
                                      Some(Confirm("Delete {id}?", TRUE))) >>,
                sub_resources |-> << SubResource("snapshots", "v") >>]
          [] k = "snapshots" ->
               [name_field |-> "name", id_field |-> "id",
                actions |-> << >>,
                sub_resources |-> << >>]
          [] k = "bq-datasets" ->
               [name_field |-> "name", id_field |-> "id",
                actions |-> << >>,
                sub_resources |-> << >>]]

ResourceKeys == DOMAIN Registry

\* An embedded document: its text parses or not (well_formed), and, parsed, it
\* is a ResourceConfig.  The color maps merge as the resources do and are left
\* empty.
Document(well_formed, resources) ==
    [well_formed |-> well_formed, color_maps |-> <<>>, resources |-> resources]

\* The documents of the model's catalog: compute.json and bigquery.json.
EmbeddedFiles ==
    << Document(TRUE, [k \in {"vm-instances", "disks", "snapshots"} |-> Registry[k]]),
       Document(TRUE, [k \in {"bq-datasets"} |-> Registry[k]]) >>

\* serde_json::from_str::<ResourceConfig>: Err for a text that does not parse.
from_str(content) ==
    IF content.well_formed
    THEN Some([color_maps |-> content.color_maps, resources |-> content.resources])
    ELSE None

\* HashMap::extend with the first entry of a key kept.
extend_keeps_existing(map, other) ==
    [k \in DOMAIN map \cup DOMAIN other |-> IF k \in DOMAIN map THEN map[k] ELSE other[k]]

\* HashMap::extend: every entry of other is inserted, in place of the entry
\* the map has under that key.
extend(map, other) ==
    [k \in DOMAIN map \cup DOMAIN other |-> IF k \in DOMAIN other THEN other[k] ELSE map[k]]

RECURSIVE MergeFiles(_, _)
\* The loop of get_registry's initialiser over the documents left to read:
\* Some(final_config), or None when a document fails to parse (expect panics).
MergeFiles(files, final_config) ==
    IF files = <<>> THEN Some(final_config)
    ELSE LET partial == from_str(Head(files))
         IN IF IsNone(partial) THEN None
            ELSE MergeFiles(Tail(files),
                            [color_maps |-> extend(final_config.color_maps,
                                                   Unwrap(partial).color_maps),
                             resources |-> extend(final_config.resources,
                                                  Unwrap(partial).resources)])

\* OnceLock::get_or_init with get_registry's initialiser: the cell after the
\* call.  A full cell stays as it is; an empty one is filled unless the
\* initialiser panics.
get_or_init(cell, files) ==
    IF IsSome(cell) THEN cell
    ELSE MergeFiles(files, [color_maps |-> <<>>, resources |-> <<>>])

\* get_registry(): the catalog the call returns in this state.
get_registry == Unwrap(get_or_init(REGISTRY, RESOURCE_FILES))

\* get_resource(key): Option<&ResourceDef>
get_resource(key) ==
    LET resources == get_registry.resources
    IN IF key \in DOMAIN resources THEN Some(resources[key]) ELSE None

\* A key that names no resource.
UnknownKey == "nope"

(***************************************************************************)
(* Messages: error and warning texts, kept as the format string's parts.   *)
(***************************************************************************)
\* kind: the fixed part; key: the resource key in it; detail: the text in it.
Msg(kind, key, detail) == [kind |-> kind, key |-> key, detail |-> detail]

\* What the transport reports when a request fails (e.to_string()).
UpstreamError == <<"UpstreamRequestFailed">>

ReadonlyWarning == "This operation is not supported in read-only mode"
NoItemWarning == "No item selected"

\* usize::to_string and str::parse::<usize> on the action indices in use.
Digits == <<"0", "1", "2", "3">>
IndexToString(i) == IF i < Len(Digits) THEN Digits[i + 1] ELSE "big"
ParseIndex(s) ==
    IF \E i \in 1..Len(Digits) : Digits[i] = s
    THEN Some((CHOOSE i \in 1..Len(Digits) : Digits[i] = s) - 1)
    ELSE None

(***************************************************************************)
(* Outcomes of the two kinds of request the dispatch layer makes.          *)
(***************************************************************************)
ListOutcomes ==
    {[ok |-> TRUE, items |-> r, err |-> <<>>] : r \in ListResults}
        \cup {[ok |-> FALSE, items |-> <<>>, err |-> UpstreamError]}

ActionOutcomes == {[ok |-> TRUE, err |-> <<>>], [ok |-> FALSE, err |-> UpstreamError]}

ListRequest(key, parent_item) ==
    [kind |-> "list", resource |-> key, index |-> 0, item |-> parent_item]
ActionRequest(key, index, item) ==
    [kind |-> "action", resource |-> key, index |-> index, item |-> Some(item)]

(***************************************************************************)
(* App: construction (App::new) and the small accessors.                   *)
(***************************************************************************)
\* App.available_zones: the first two of the built-in zones.
AvailableZones == <<"us-central1-a", "us-central1-b">>

\* App::new, for the project taken from the configuration, the project
\* list the API returned at start-up and the --readonly flag.
AppNew(project, available_projects, readonly) ==
    [resource_key |-> "vm-instances",
     items |-> <<>>,
     filtered_items |-> <<>>,
     selected |-> 0,
     mode |-> IF project = "" THEN "Projects" ELSE "Normal",
     filter_text |-> <<>>,
     filter_active |-> FALSE,
     parent_context |-> None,
     navigation_stack |-> <<>>,
     command_text |-> <<>>,
     command_suggestions |-> <<>>,
     command_suggestion_selected |-> 0,
     command_preview |-> None,
     project |-> project,
     zone |-> "us-central1-a",
     available_projects |-> available_projects,
     projects_selected |-> 0,
     zones_selected |-> 0,
     pending_action |-> None,
     loading |-> FALSE,
     error |-> None,
     describe_data |-> None,
     \* TRUE when last_refresh.elapsed() >= 5 s
     refresh_due |-> FALSE,
     \* Some("g") when a 'g' is stored for the 'gg' sequence
     last_key_press |-> None,
     warning_message |-> None,
     readonly |-> readonly,
     requests |-> <<>>,
     \* the mode and the loading flag at the moment the action request of the
     \* operation under way was made
     action_seen |-> None]

\* App::has_project
has_project(s) == s.project # ""

\* A faulty needs_refresh: it does not look at the mode.
needs_refresh_ignores_mode(s) ==
    /\ ~s.loading
    /\ IsNone(s.error)
    /\ has_project(s)
    /\ s.refresh_due

\* A faulty needs_refresh: the confirmation dialog does not hold it back.
needs_refresh_under_confirm(s) ==
    /\ s.mode \in {"Normal", "Confirm"}
    /\ ~s.loading
    /\ IsNone(s.error)
    /\ has_project(s)
    /\ s.refresh_due

\* App::needs_refresh
needs_refresh(s) ==
    /\ s.mode = "Normal"
    /\ ~s.loading
    /\ IsNone(s.error)
    /\ has_project(s)
    /\ s.refresh_due

\* App::mark_refreshed
mark_refreshed(s) == [s EXCEPT !.refresh_due = FALSE]

\* App::current_resource
current_resource(s) == get_resource(s.resource_key)

\* App::selected_item
selected_item(s) == Get(s.filtered_items, s.selected)

\* App::show_warning
show_warning(s, message) ==
    [s EXCEPT !.warning_message = Some(message), !.error = None, !.mode = "Warning"]

\* App::show_error
show_error(s, message) ==
    [s EXCEPT !.error = Some(message), !.warning_message = None, !.mode = "Warning"]

\* A faulty exit_mode: the pending action is left in place.
exit_mode_keeps_pending(s) ==
    [s EXCEPT !.mode = "Normal", !.describe_data = None,
              !.warning_message = None, !.error = None]

\* App::exit_mode
exit_mode(s) ==
    [s EXCEPT !.mode = "Normal", !.pending_action = None, !.describe_data = None,
              !.warning_message = None, !.error = None]

(***************************************************************************)
(* Filtering.                                                              *)
(***************************************************************************)
\* The closure of apply_filter: whether the item passes the lower-cased filter.
FilterMatches(s, filter, item) ==
    LET resource == current_resource(s) IN
    IF IsSome(resource)
    THEN LET name == ToLowercase(extract_json_value(item, Unwrap(resource).name_field))
             id == ToLowercase(extract_json_value(item, Unwrap(resource).id_field))
         IN Contains(name, filter) \/ Contains(id, filter)
    ELSE Contains(ToLowercase(ItemToString(item)), filter)

\* A faulty apply_filter: a selection past the end steps back by one.
apply_filter_steps_back(s) ==
    LET filter == ToLowercase(s.filter_text)
        filtered == IF filter = <<>> THEN s.items
                    ELSE SelectSeq(s.items, LAMBDA item : FilterMatches(s, filter, item))
    IN [s EXCEPT !.filtered_items = filtered,
                 !.selected = IF s.selected >= Len(filtered) /\ filtered # <<>>
                              THEN s.selected - 1 ELSE s.selected]

\* A faulty apply_filter: the selection is left where it was.
apply_filter_keeps_selection(s) ==
    LET filter == ToLowercase(s.filter_text)
        filtered == IF filter = <<>> THEN s.items
                    ELSE SelectSeq(s.items, LAMBDA item : FilterMatches(s, filter, item))
    IN [s EXCEPT !.filtered_items = filtered]

\* App::apply_filter
apply_filter(s) ==
    LET filter == ToLowercase(s.filter_text)
        filtered == IF filter = <<>> THEN s.items
                    ELSE SelectSeq(s.items, LAMBDA item : FilterMatches(s, filter, item))
    IN [s EXCEPT !.filtered_items = filtered,
                 !.selected = IF s.selected >= Len(filtered) /\ filtered # <<>>
                              THEN Len(filtered) - 1 ELSE s.selected]

\* App::clear_filter
clear_filter(s) == apply_filter([s EXCEPT !.filter_text = <<>>, !.filter_active = FALSE])

(***************************************************************************)
(* Data fetching.                                                          *)
(***************************************************************************)
\* A faulty refresh: a failed list request reports the error and keeps the
\* lists and the selection it had.
refresh_keeps_items(s, lo) ==
    LET s1 == [s EXCEPT !.loading = TRUE, !.error = None]
        parent_item == IF IsSome(s1.parent_context)
                       THEN Some(Unwrap(s1.parent_context).item) ELSE None
        s2 == IF IsSome(get_resource(s1.resource_key))
              THEN LET called == [s1 EXCEPT !.requests =
                                     Append(@, ListRequest(s1.resource_key, parent_item))]
                   IN IF lo.ok
                      THEN LET prev_selected == called.selected
                               f == apply_filter([called EXCEPT !.items = lo.items])
                           IN [f EXCEPT !.selected =
                                  IF prev_selected < Len(f.filtered_items)
                                  THEN prev_selected ELSE 0]
                      ELSE show_error(called, Msg("Upstream", "", lo.err))
              ELSE show_error(s1, Msg("Resource not found", s1.resource_key, <<>>))
    IN mark_refreshed([s2 EXCEPT !.loading = FALSE])

\* A faulty refresh: the items returned are added to those already held.
refresh_appends_items(s, lo) ==
    LET s1 == [s EXCEPT !.loading = TRUE, !.error = None]
        parent_item == IF IsSome(s1.parent_context)
                       THEN Some(Unwrap(s1.parent_context).item) ELSE None
        s2 == IF IsSome(get_resource(s1.resource_key))
              THEN LET called == [s1 EXCEPT !.requests =
                                     Append(@, ListRequest(s1.resource_key, parent_item))]
                   IN IF lo.ok
                      THEN LET prev_selected == called.selected
                               f == apply_filter([called EXCEPT !.items = @ \o lo.items])
                           IN [f EXCEPT !.selected =
                                  IF prev_selected < Len(f.filtered_items)
                                  THEN prev_selected ELSE 0]
                      ELSE [show_error(called, Msg("Upstream", "", lo.err))
                              EXCEPT !.items = <<>>, !.filtered_items = <<>>, !.selected = 0]
              ELSE show_error(s1, Msg("Resource not found", s1.resource_key, <<>>))
    IN mark_refreshed([s2 EXCEPT !.loading = FALSE])

\* App::refresh, for the outcome lo of the list request it makes.
refresh(s, lo) ==
    LET s1 == [s EXCEPT !.loading = TRUE, !.error = None]
        parent_item == IF IsSome(s1.parent_context)
                       THEN Some(Unwrap(s1.parent_context).item) ELSE None
        s2 == IF IsSome(get_resource(s1.resource_key))
              THEN LET called == [s1 EXCEPT !.requests =
                                     Append(@, ListRequest(s1.resource_key, parent_item))]
                   IN IF lo.ok
                      THEN LET prev_selected == called.selected
                               f == apply_filter([called EXCEPT !.items = lo.items])
                           IN [f EXCEPT !.selected =
                                  IF prev_selected < Len(f.filtered_items)
                                  THEN prev_selected ELSE 0]
                      ELSE [show_error(called, Msg("Upstream", "", lo.err))
                              EXCEPT !.items = <<>>, !.filtered_items = <<>>, !.selected = 0]
              ELSE show_error(s1, Msg("Resource not found", s1.resource_key, <<>>))
    IN mark_refreshed([s2 EXCEPT !.loading = FALSE])

(***************************************************************************)
(* Resource navigation.                                                    *)
(***************************************************************************)
\* A faulty navigate_to_resource: it resets the view before it looks the key up.
navigate_to_resource_resets_first(s, resource_key, lo) ==
    LET reset == [s EXCEPT !.parent_context = None,
                           !.navigation_stack = <<>>,
                           !.selected = 0,
                           !.filter_text = <<>>,
                           !.filter_active = FALSE,
                           !.mode = "Normal"]
    IN IF IsNone(get_resource(resource_key))
       THEN [reset EXCEPT !.error = Some(Msg("Unknown resource", resource_key, <<>>))]
       ELSE refresh([reset EXCEPT !.resource_key = resource_key], lo)

\* A faulty navigate_to_resource: it keeps the drill-down context it had.
navigate_to_resource_keeps_context(s, resource_key, lo) ==
    IF IsNone(get_resource(resource_key))
    THEN [s EXCEPT !.error = Some(Msg("Unknown resource", resource_key, <<>>))]
    ELSE refresh([s EXCEPT !.resource_key = resource_key,
                           !.selected = 0,
                           !.filter_text = <<>>,
                           !.filter_active = FALSE,
                           !.mode = "Normal"], lo)

\* A faulty navigate_to_resource: the parent context is cleared and the stack
\* below it is left.
navigate_to_resource_keeps_stack(s, resource_key, lo) ==
    IF IsNone(get_resource(resource_key))
    THEN [s EXCEPT !.error = Some(Msg("Unknown resource", resource_key, <<>>))]
    ELSE refresh([s EXCEPT !.parent_context = None,
                           !.resource_key = resource_key,
                           !.selected = 0,
                           !.filter_text = <<>>,
                           !.filter_active = FALSE,
                           !.mode = "Normal"], lo)

\* App::navigate_to_resource
navigate_to_resource(s, resource_key, lo) ==
    IF IsNone(get_resource(resource_key))
    THEN [s EXCEPT !.error = Some(Msg("Unknown resource", resource_key, <<>>))]
    ELSE refresh([s EXCEPT !.parent_context = None,
                           !.navigation_stack = <<>>,
                           !.resource_key = resource_key,
                           !.selected = 0,
                           !.filter_text = <<>>,
                           !.filter_active = FALSE,
                           !.mode = "Normal"], lo)

\* The ParentContext navigate_to_sub_resource builds from the selected item.
ParentContext(s, item) ==
    LET res == Unwrap(current_resource(s))
        display_name == extract_json_value(item, res.name_field)
        id == extract_json_value(item, res.id_field)
    IN [resource_key |-> s.resource_key,
        item |-> item,
        display_name |-> IF display_name # Sentinel THEN display_name ELSE id]

\* A faulty navigate_to_sub_resource: it drills down before it checks that the
\* key is declared under the current resource.
navigate_to_sub_resource_pushes_first(s, sub_resource_key, lo) ==
    IF IsNone(selected_item(s)) THEN s
    ELSE IF IsNone(current_resource(s)) THEN s
    ELSE LET pushed == [s EXCEPT !.navigation_stack = @ \o s.parent_context,
                                 !.parent_context =
                                     Some(ParentContext(s, Unwrap(selected_item(s)))),
                                 !.selected = 0,
                                 !.filter_text = <<>>,
                                 !.filter_active = FALSE]
         IN IF ~\E i \in 1..Len(Unwrap(current_resource(s)).sub_resources) :
                   Unwrap(current_resource(s)).sub_resources[i].resource_key = sub_resource_key
            THEN [pushed EXCEPT !.error = Some(Msg("Not a sub-resource", s.resource_key,
                                                    <<sub_resource_key>>))]
            ELSE refresh([pushed EXCEPT !.resource_key = sub_resource_key], lo)

\* A faulty navigate_to_sub_resource: it resets the selection before it
\* captures the item, so the context holds the first item of the list.
navigate_to_sub_resource_captures_first(s, sub_resource_key, lo) ==
    IF IsNone(selected_item(s)) THEN s
    ELSE IF IsNone(current_resource(s)) THEN s
    ELSE IF ~\E i \in 1..Len(Unwrap(current_resource(s)).sub_resources) :
                Unwrap(current_resource(s)).sub_resources[i].resource_key = sub_resource_key
    THEN [s EXCEPT !.error = Some(Msg("Not a sub-resource", s.resource_key,
                                       <<sub_resource_key>>))]
    ELSE refresh([s EXCEPT !.navigation_stack = @ \o s.parent_context,
                           !.parent_context = Some(ParentContext(s, s.filtered_items[1])),
                           !.resource_key = sub_resource_key,
                           !.selected = 0,
                           !.filter_text = <<>>,
                           !.filter_active = FALSE], lo)

\* A faulty navigate_to_sub_resource: the key is not looked up among the
\* sub-resources the current resource declares.
navigate_to_sub_resource_unchecked(s, sub_resource_key, lo) ==
    IF IsNone(selected_item(s)) THEN s
    ELSE IF IsNone(current_resource(s)) THEN s
    ELSE refresh([s EXCEPT !.navigation_stack = @ \o s.parent_context,
                           !.parent_context = Some(ParentContext(s, Unwrap(selected_item(s)))),
                           !.resource_key = sub_resource_key,
                           !.selected = 0,
                           !.filter_text = <<>>,
                           !.filter_active = FALSE], lo)

\* App::navigate_to_sub_resource
navigate_to_sub_resource(s, sub_resource_key, lo) ==
    IF IsNone(selected_item(s)) THEN s
    ELSE IF IsNone(current_resource(s)) THEN s
    ELSE IF ~\E i \in 1..Len(Unwrap(current_resource(s)).sub_resources) :
                Unwrap(current_resource(s)).sub_resources[i].resource_key = sub_resource_key
    THEN [s EXCEPT !.error = Some(Msg("Not a sub-resource", s.resource_key,
                                       <<sub_resource_key>>))]
    ELSE refresh([s EXCEPT !.navigation_stack = @ \o s.parent_context,
                           !.parent_context = Some(ParentContext(s, Unwrap(selected_item(s)))),
                           !.resource_key = sub_resource_key,
                           !.selected = 0,
                           !.filter_text = <<>>,
                           !.filter_active = FALSE], lo)

\* A faulty navigate_back: it leaves the stack alone and ends with no parent
\* context.
navigate_back_drops_context(s, lo) ==
    IF IsSome(s.parent_context)
    THEN LET parent == Unwrap(s.parent_context)
         IN refresh([s EXCEPT !.parent_context = None,
                              !.resource_key = parent.resource_key,
                              !.selected = 0,
                              !.filter_text = <<>>,
                              !.filter_active = FALSE], lo)
    ELSE s

\* A faulty navigate_back: it keeps the filter and the cursor of the
\* sub-resource view.
navigate_back_keeps_filter(s, lo) ==
    IF IsSome(s.parent_context)
    THEN LET parent == Unwrap(s.parent_context)
             n == Len(s.navigation_stack)
         IN refresh([s EXCEPT !.parent_context = Get(s.navigation_stack, n - 1),
                              !.navigation_stack = SubSeq(@, 1, n - 1),
                              !.resource_key = parent.resource_key], lo)
    ELSE s

\* A faulty navigate_back: the list is refreshed before the frame is popped, so
\* the request still carries the item of the level being left.
navigate_back_refreshes_first(s, lo) ==
    IF IsSome(s.parent_context)
    THEN LET parent == Unwrap(s.parent_context)
             n == Len(s.navigation_stack)
             r == refresh([s EXCEPT !.resource_key = parent.resource_key,
                                    !.selected = 0,
                                    !.filter_text = <<>>,
                                    !.filter_active = FALSE], lo)
         IN [r EXCEPT !.parent_context = Get(s.navigation_stack, n - 1),
                      !.navigation_stack = SubSeq(@, 1, n - 1)]
    ELSE s

\* App::navigate_back
navigate_back(s, lo) ==
    IF IsSome(s.parent_context)
    THEN LET parent == Unwrap(s.parent_context)
             n == Len(s.navigation_stack)
         IN refresh([s EXCEPT !.parent_context = Get(s.navigation_stack, n - 1),
                              !.navigation_stack = SubSeq(@, 1, n - 1),
                              !.resource_key = parent.resource_key,
                              !.selected = 0,
                              !.filter_text = <<>>,
                              !.filter_active = FALSE], lo)
    ELSE s

\* A faulty get_breadcrumb: the parent context comes before the stack frames.
get_breadcrumb_context_first(s) ==
    [i \in 1..Len(s.parent_context) |->
        <<s.parent_context[i].resource_key, s.parent_context[i].display_name>>]
    \o [i \in 1..Len(s.navigation_stack) |->
        <<s.navigation_stack[i].resource_key, s.navigation_stack[i].display_name>>]
    \o << <<s.resource_key, <<>> >> >>

\* App::get_breadcrumb: one <<origin key, label>> per frame, then the current key.
get_breadcrumb(s) ==
    [i \in 1..Len(s.navigation_stack) |->
        <<s.navigation_stack[i].resource_key, s.navigation_stack[i].display_name>>]
    \o [i \in 1..Len(s.parent_context) |->
        <<s.parent_context[i].resource_key, s.parent_context[i].display_name>>]
    \o << <<s.resource_key, <<>> >> >>

(***************************************************************************)
(* Zone and project switching.                                             *)
(***************************************************************************)
\* App::switch_zone
switch_zone(s, zone) == [s EXCEPT !.zone = zone]

\* App::switch_project
switch_project(s, project) == [s EXCEPT !.project = project]

\* Iterator::position(..).unwrap_or(0)
PositionOrZero(v, x) ==
    IF \E i \in 1..Len(v) : v[i] = x
    THEN (CHOOSE i \in 1..Len(v) : v[i] = x /\ \A j \in 1..(i - 1) : v[j] # x) - 1
    ELSE 0

\* App::enter_projects_mode
enter_projects_mode(s) ==
    [s EXCEPT !.projects_selected = PositionOrZero(s.available_projects, s.project),
              !.mode = "Projects"]

\* App::enter_zones_mode
enter_zones_mode(s) ==
    [s EXCEPT !.zones_selected = PositionOrZero(AvailableZones, s.zone),
              !.mode = "Zones"]

\* App::select_project
select_project(s, lo) ==
    LET project == Get(s.available_projects, s.projects_selected) IN
    exit_mode(IF IsSome(project) THEN refresh(switch_project(s, Unwrap(project)), lo) ELSE s)

\* App::select_zone
select_zone(s, lo) ==
    LET zone == Get(AvailableZones, s.zones_selected) IN
    exit_mode(IF IsSome(zone) THEN refresh(switch_zone(s, Unwrap(zone)), lo) ELSE s)

(***************************************************************************)
(* Cursor movement and the simple mode transitions.                        *)
(***************************************************************************)
\* App::next
next(s) ==
    CASE s.mode = "Projects" ->
           IF s.available_projects # <<>>
           THEN [s EXCEPT !.projects_selected = Min(@ + 1, Len(s.available_projects) - 1)]
           ELSE s
      [] s.mode = "Zones" ->
           IF AvailableZones # <<>>
           THEN [s EXCEPT !.zones_selected = Min(@ + 1, Len(AvailableZones) - 1)]
           ELSE s
      [] OTHER ->
           IF s.filtered_items # <<>>
           THEN [s EXCEPT !.selected = Min(@ + 1, Len(s.filtered_items) - 1)]
           ELSE s

\* App::previous
previous(s) ==
    CASE s.mode = "Projects" -> [s EXCEPT !.projects_selected = SatSub(@, 1)]
      [] s.mode = "Zones" -> [s EXCEPT !.zones_selected = SatSub(@, 1)]
      [] OTHER -> [s EXCEPT !.selected = SatSub(@, 1)]

\* App::go_to_top
go_to_top(s) ==
    CASE s.mode = "Projects" -> [s EXCEPT !.projects_selected = 0]
      [] s.mode = "Zones" -> [s EXCEPT !.zones_selected = 0]
      [] OTHER -> [s EXCEPT !.selected = 0]

\* App::go_to_bottom
go_to_bottom(s) ==
    CASE s.mode = "Projects" ->
           IF s.available_projects # <<>>
           THEN [s EXCEPT !.projects_selected = Len(s.available_projects) - 1] ELSE s
      [] s.mode = "Zones" ->
           IF AvailableZones # <<>>
           THEN [s EXCEPT !.zones_selected = Len(AvailableZones) - 1] ELSE s
      [] OTHER ->
           IF s.filtered_items # <<>>
           THEN [s EXCEPT !.selected = Len(s.filtered_items) - 1] ELSE s

\* App::enter_help_mode
enter_help_mode(s) == [s EXCEPT !.mode = "Help"]

\* App::enter_describe_mode
enter_describe_mode(s) ==
    IF s.filtered_items = <<>> THEN s
    ELSE [s EXCEPT !.mode = "Describe", !.describe_data = selected_item(s)]

(***************************************************************************)
(* Command input.                                                          *)
(***************************************************************************)
\* The order of characters, for sorting command words.
CharOrder == <<" ", "-", "0", "1", "2", "9", "a", "b", "c", "d", "e", "f", "g", "h", "i",
               "j", "k", "l", "m", "n", "o", "p", "q", "r", "s", "t", "u", "v", "w",
               "x", "y", "z">>
CharRank(c) == CHOOSE i \in 1..Len(CharOrder) : CharOrder[i] = c

RECURSIVE TextLess(_, _)
\* a < b for strings, as Vec<String>::sort compares them.
TextLess(a, b) ==
    IF b = <<>> THEN FALSE
    ELSE IF a = <<>> THEN TRUE
    ELSE IF a[1] # b[1] THEN CharRank(a[1]) < CharRank(b[1])
    ELSE TextLess(Tail(a), Tail(b))

RECURSIVE SortWords(_)
\* The words of a set in ascending order.
SortWords(W) ==
    IF W = {} THEN <<>>
    ELSE LET least == CHOOSE w \in W : \A x \in W \ {w} : TextLess(Chars[w], Chars[x])
         IN <<least>> \o SortWords(W \ {least})

\* get_all_resource_keys
get_all_resource_keys == DOMAIN get_registry.resources

\* App::get_available_commands
get_available_commands == SortWords(get_all_resource_keys \cup {"projects", "zones"})

\* App::update_preview
update_preview(s) ==
    [s EXCEPT !.command_preview =
        IF s.command_suggestions = <<>> THEN None
        ELSE Get(s.command_suggestions, s.command_suggestion_selected)]

\* App::enter_command_mode
enter_command_mode(s) ==
    [s EXCEPT !.mode = "Command",
              !.command_text = <<>>,
              !.command_suggestions = get_available_commands,
              !.command_suggestion_selected = 0,
              !.command_preview = None]

\* A faulty update_command_suggestions: the selected index is left where it was.
update_command_suggestions_keeps_index(s) ==
    LET input == ToLowercase(s.command_text)
        suggestions == IF input = <<>> THEN get_available_commands
                       ELSE SelectSeq(get_available_commands,
                                      LAMBDA cmd : Contains(Chars[cmd], input))
    IN update_preview([s EXCEPT !.command_suggestions = suggestions])

\* App::update_command_suggestions
update_command_suggestions(s) ==
    LET input == ToLowercase(s.command_text)
        suggestions == IF input = <<>> THEN get_available_commands
                       ELSE SelectSeq(get_available_commands,
                                      LAMBDA cmd : Contains(Chars[cmd], input))
    IN update_preview([s EXCEPT !.command_suggestions = suggestions,
                                !.command_suggestion_selected =
                                    IF @ >= Len(suggestions) THEN 0 ELSE @])

\* A faulty next_suggestion: it stops at the last suggestion.
next_suggestion_stops_at_end(s) ==
    IF s.command_suggestions # <<>>
    THEN update_preview([s EXCEPT !.command_suggestion_selected =
                                     Min(@ + 1, Len(s.command_suggestions) - 1)])
    ELSE s

\* App::next_suggestion
next_suggestion(s) ==
    IF s.command_suggestions # <<>>
    THEN update_preview([s EXCEPT !.command_suggestion_selected =
                                     (@ + 1) % Len(s.command_suggestions)])
    ELSE s

\* App::prev_suggestion
prev_suggestion(s) ==
    IF s.command_suggestions # <<>>
    THEN update_preview([s EXCEPT !.command_suggestion_selected =
                                     IF @ = 0 THEN Len(s.command_suggestions) - 1 ELSE @ - 1])
    ELSE s

\* apply_suggestion without the second filtering: the text is copied and the
\* suggestions stay as they were.
apply_suggestion_keeps_suggestions(s) ==
    IF IsSome(s.command_preview)
    THEN [s EXCEPT !.command_text = Chars[Unwrap(s.command_preview)]]
    ELSE s

\* App::apply_suggestion
apply_suggestion(s) ==
    IF IsSome(s.command_preview)
    THEN update_command_suggestions([s EXCEPT !.command_text = Chars[Unwrap(s.command_preview)]])
    ELSE s

RECURSIVE SplitWhitespace(_, _)
\* str::split_whitespace: the maximal runs of non-blank characters
\* (cur is the run being read).
SplitWhitespace(t, cur) ==
    IF t = <<>> THEN (IF cur = <<>> THEN <<>> ELSE <<cur>>)
    ELSE IF t[1] = " "
         THEN (IF cur = <<>> THEN <<>> ELSE <<cur>>) \o SplitWhitespace(Tail(t), <<>>)
         ELSE SplitWhitespace(Tail(t), Append(cur, t[1]))

\* A resolution that runs the text typed whenever there is any.
EffectiveCommand_typed_first(s) ==
    IF s.command_text = <<>>
    THEN (IF IsSome(s.command_preview) THEN Chars[Unwrap(s.command_preview)] ELSE <<>>)
    ELSE s.command_text

\* The command string execute_command resolves from the buffer and the preview.
EffectiveCommand(s) ==
    IF s.command_text = <<>>
    THEN (IF IsSome(s.command_preview) THEN Chars[Unwrap(s.command_preview)] ELSE <<>>)
    ELSE IF IsSome(s.command_preview)
         THEN (IF Contains(Chars[Unwrap(s.command_preview)], s.command_text)
               THEN Chars[Unwrap(s.command_preview)] ELSE s.command_text)
         ELSE s.command_text

\* The word with these characters: a resource key, a zone or a project name
\* (a text outside the table stays a name of its own).
Word(text) ==
    IF \E w \in DOMAIN Chars : Chars[w] = text
    THEN CHOOSE w \in DOMAIN Chars : Chars[w] = text
    ELSE "<typed>"

\* A faulty execute_command: a catalog key is always entered from the top.
execute_command_always_top_level(s, lo) ==
    LET parts == SplitWhitespace(EffectiveCommand(s), <<>>)
        cmd == parts[1]
        done(x) == [app |-> [x EXCEPT !.mode = "Normal"], quit |-> FALSE]
    IN IF parts = <<>> THEN [app |-> s, quit |-> FALSE]
       ELSE IF cmd = Chars["q"] \/ cmd = Chars["quit"] THEN [app |-> s, quit |-> TRUE]
       ELSE IF cmd = Chars["back"] THEN done(navigate_back(s, lo))
       ELSE IF cmd = Chars["projects"] THEN [app |-> enter_projects_mode(s), quit |-> FALSE]
       ELSE IF cmd = Chars["zones"] THEN [app |-> enter_zones_mode(s), quit |-> FALSE]
       ELSE IF cmd = Chars["zone"] /\ Len(parts) > 1
            THEN done(refresh(switch_zone(s, Word(parts[2])), lo))
       ELSE IF cmd = Chars["project"] /\ Len(parts) > 1
            THEN done(refresh(switch_project(s, Word(parts[2])), lo))
       ELSE IF IsSome(get_resource(Word(cmd)))
            THEN done(navigate_to_resource(s, Word(cmd), lo))
       ELSE done([s EXCEPT !.error = Some(Msg("Unknown command", "", cmd))])

\* App::execute_command: the new state and whether to quit.
execute_command(s, lo) ==
    LET parts == SplitWhitespace(EffectiveCommand(s), <<>>)
        cmd == parts[1]
        done(x) == [app |-> [x EXCEPT !.mode = "Normal"], quit |-> FALSE]
    IN IF parts = <<>> THEN [app |-> s, quit |-> FALSE]
       ELSE IF cmd = Chars["q"] \/ cmd = Chars["quit"] THEN [app |-> s, quit |-> TRUE]
       ELSE IF cmd = Chars["back"] THEN done(navigate_back(s, lo))
       ELSE IF cmd = Chars["projects"] THEN [app |-> enter_projects_mode(s), quit |-> FALSE]
       ELSE IF cmd = Chars["zones"] THEN [app |-> enter_zones_mode(s), quit |-> FALSE]
       ELSE IF cmd = Chars["zone"] /\ Len(parts) > 1
            THEN done(refresh(switch_zone(s, Word(parts[2])), lo))
       ELSE IF cmd = Chars["project"] /\ Len(parts) > 1
            THEN done(refresh(switch_project(s, Word(parts[2])), lo))
       ELSE IF IsSome(get_resource(Word(cmd)))
            THEN IF IsSome(current_resource(s))
                 THEN LET subs == Unwrap(current_resource(s)).sub_resources
                          is_sub == \E i \in 1..Len(subs) : subs[i].resource_key = Word(cmd)
                      IN IF is_sub /\ IsSome(selected_item(s))
                         THEN done(navigate_to_sub_resource(s, Word(cmd), lo))
                         ELSE done(navigate_to_resource(s, Word(cmd), lo))
                 ELSE done(navigate_to_resource(s, Word(cmd), lo))
       ELSE done([s EXCEPT !.error = Some(Msg("Unknown command", "", cmd))])

(***************************************************************************)
(* Actions and the confirmation gate.                                      *)
(***************************************************************************)
\* App::find_action_by_shortcut
find_action_by_shortcut(s, shortcut) ==
    IF IsNone(current_resource(s)) THEN None
    ELSE LET actions == Unwrap(current_resource(s)).actions
             hit(i) == actions[i].shortcut = Some(shortcut)
         IN IF \E i \in 1..Len(actions) : hit(i)
            THEN Some((CHOOSE i \in 1..Len(actions) : hit(i) /\ \A j \in 1..(i - 1) : ~hit(j)) - 1)
            ELSE None

\* App::find_sub_resource_by_shortcut
find_sub_resource_by_shortcut(s, shortcut) ==
    IF IsNone(selected_item(s)) THEN None
    ELSE IF IsNone(current_resource(s)) THEN None
    ELSE LET subs == Unwrap(current_resource(s)).sub_resources
             hit(i) == subs[i].shortcut = shortcut
         IN IF \E i \in 1..Len(subs) : hit(i)
            THEN Some(subs[CHOOSE i \in 1..Len(subs) : hit(i) /\ \A j \in 1..(i - 1) : ~hit(j)]
                        .resource_key)
            ELSE None

\* The PendingAction trigger_action builds.
PendingAction(message, destructive, selected_yes, action_index, resource_id) ==
    [message |-> message, destructive |-> destructive, selected_yes |-> selected_yes,
     action_key |-> IndexToString(action_index), resource_id |-> resource_id]

\* A faulty trigger_action: the confirmation dialog opens with "yes" selected.
trigger_action_preselects_yes(s, action_index) ==
    IF s.readonly THEN show_warning(s, ReadonlyWarning)
    ELSE IF IsNone(current_resource(s)) THEN s
    ELSE IF IsNone(Get(Unwrap(current_resource(s)).actions, action_index)) THEN s
    ELSE IF IsNone(selected_item(s)) THEN show_warning(s, NoItemWarning)
    ELSE LET resource == Unwrap(current_resource(s))
             action == At(resource.actions, action_index)
             item == Unwrap(selected_item(s))
             item_name == extract_json_value(item, resource.name_field)
             item_id == extract_json_value(item, resource.id_field)
         IN IF IsSome(action.confirm)
            THEN [s EXCEPT !.pending_action =
                               Some(PendingAction(
                                   [template |-> Unwrap(action.confirm).message,
                                    name |-> item_name, id |-> item_id],
                                   Unwrap(action.confirm).destructive,
                                   TRUE, action_index, item_id)),
                           !.mode = "Confirm"]
            ELSE [s EXCEPT !.pending_action =
                               Some(PendingAction(
                                   [template |-> "", name |-> <<>>, id |-> <<>>],
                                   FALSE, TRUE, action_index, item_id))]

\* A faulty trigger_action: it does not look at the read-only flag.
trigger_action_ignores_readonly(s, action_index) ==
    IF IsNone(current_resource(s)) THEN s
    ELSE IF IsNone(Get(Unwrap(current_resource(s)).actions, action_index)) THEN s
    ELSE IF IsNone(selected_item(s)) THEN show_warning(s, NoItemWarning)
    ELSE LET resource == Unwrap(current_resource(s))
             action == At(resource.actions, action_index)
             item == Unwrap(selected_item(s))
             item_name == extract_json_value(item, resource.name_field)
             item_id == extract_json_value(item, resource.id_field)
         IN IF IsSome(action.confirm)
            THEN [s EXCEPT !.pending_action =
                               Some(PendingAction(
                                   [template |-> Unwrap(action.confirm).message,
                                    name |-> item_name, id |-> item_id],
                                   Unwrap(action.confirm).destructive,
                                   FALSE, action_index, item_id)),
                           !.mode = "Confirm"]
            ELSE [s EXCEPT !.pending_action =
                               Some(PendingAction(
                                   [template |-> "", name |-> <<>>, id |-> <<>>],
                                   FALSE, TRUE, action_index, item_id))]

\* A faulty trigger_action: the pending action of an action without a
\* confirmation is created with "no" selected.
trigger_action_unconfirmed_selects_no(s, action_index) ==
    IF s.readonly THEN show_warning(s, ReadonlyWarning)
    ELSE IF IsNone(current_resource(s)) THEN s
    ELSE IF IsNone(Get(Unwrap(current_resource(s)).actions, action_index)) THEN s
    ELSE IF IsNone(selected_item(s)) THEN show_warning(s, NoItemWarning)
    ELSE LET resource == Unwrap(current_resource(s))
             action == At(resource.actions, action_index)
             item == Unwrap(selected_item(s))
             item_name == extract_json_value(item, resource.name_field)
             item_id == extract_json_value(item, resource.id_field)
         IN IF IsSome(action.confirm)
            THEN [s EXCEPT !.pending_action =
                               Some(PendingAction(
                                   [template |-> Unwrap(action.confirm).message,
                                    name |-> item_name, id |-> item_id],
                                   Unwrap(action.confirm).destructive,
                                   FALSE, action_index, item_id)),
                           !.mode = "Confirm"]
            ELSE [s EXCEPT !.pending_action =
                               Some(PendingAction(
                                   [template |-> "", name |-> <<>>, id |-> <<>>],
                                   FALSE, FALSE, action_index, item_id))]

\* App::trigger_action
trigger_action(s, action_index) ==
    IF s.readonly THEN show_warning(s, ReadonlyWarning)
    ELSE IF IsNone(current_resource(s)) THEN s
    ELSE IF IsNone(Get(Unwrap(current_resource(s)).actions, action_index)) THEN s
    ELSE IF IsNone(selected_item(s)) THEN show_warning(s, NoItemWarning)
    ELSE LET resource == Unwrap(current_resource(s))
             action == At(resource.actions, action_index)
             item == Unwrap(selected_item(s))
             item_name == extract_json_value(item, resource.name_field)
             item_id == extract_json_value(item, resource.id_field)
         IN IF IsSome(action.confirm)
            THEN [s EXCEPT !.pending_action =
                               Some(PendingAction(
                                   \* message.replace("{name}", ..).replace("{id}", ..)
                                   [template |-> Unwrap(action.confirm).message,
                                    name |-> item_name, id |-> item_id],
                                   Unwrap(action.confirm).destructive,
                                   FALSE, action_index, item_id)),
                           !.mode = "Confirm"]
            ELSE [s EXCEPT !.pending_action =
                               Some(PendingAction(
                                   [template |-> "", name |-> <<>>, id |-> <<>>],
                                   FALSE, TRUE, action_index, item_id))]

\* dispatch::execute_action seen from the engine: the request it makes, if any,
\* and its result for the outcome ao of that request.
execute_action(s, resource_key, action_index, item, ao) ==
    IF IsNone(Get(Registry[resource_key].actions, action_index))
    THEN [app |-> s, ok |-> FALSE, err |-> <<"Action index out of bounds">>]
    ELSE [app |-> [s EXCEPT !.requests = Append(@, ActionRequest(resource_key, action_index, item)),
                            !.action_seen = Some([mode |-> s.mode, loading |-> s.loading])],
          ok |-> ao.ok, err |-> ao.err]

\* A faulty run: loading is cleared only by the refresh after a success.
RunAction_stays_loading(u, pending, ao, lo) ==
    LET action_index == Unwrap(ParseIndex(pending.action_key))
        resource == Unwrap(current_resource(u))
        item == Unwrap(selected_item(u))
        action_name == IF IsSome(Get(resource.actions, action_index))
                       THEN At(resource.actions, action_index).display_name
                       ELSE "Unknown"
        r == execute_action(u, u.resource_key, action_index, item, ao)
    IN IF r.ok THEN refresh(r.app, lo)
       ELSE [r.app EXCEPT !.error = Some(Msg("Action failed", action_name, r.err))]

\* A faulty run: the list is refreshed after a failed action too.
RunAction_refreshes_on_failure(u, pending, ao, lo) ==
    LET action_index == Unwrap(ParseIndex(pending.action_key))
        resource == Unwrap(current_resource(u))
        item == Unwrap(selected_item(u))
        action_name == IF IsSome(Get(resource.actions, action_index))
                       THEN At(resource.actions, action_index).display_name
                       ELSE "Unknown"
        r == execute_action(u, u.resource_key, action_index, item, ao)
        v == IF r.ok THEN refresh(r.app, lo)
             ELSE [refresh(r.app, lo)
                     EXCEPT !.error = Some(Msg("Action failed", action_name, r.err))]
    IN [v EXCEPT !.loading = FALSE]

\* The part of execute_pending_action after its early returns, from the state u
\* in which the action request is made.
RunAction(u, pending, ao, lo) ==
    LET action_index == Unwrap(ParseIndex(pending.action_key))
        resource == Unwrap(current_resource(u))
        item == Unwrap(selected_item(u))
        action_name == IF IsSome(Get(resource.actions, action_index))
                       THEN At(resource.actions, action_index).display_name
                       ELSE "Unknown"
        r == execute_action(u, u.resource_key, action_index, item, ao)
        v == IF r.ok THEN refresh(r.app, lo)
             ELSE [r.app EXCEPT !.error = Some(Msg("Action failed", action_name, r.err))]
    IN [v EXCEPT !.loading = FALSE]

\* A faulty execute_pending_action: it does not look at the dialog's selection.
execute_pending_action_ignores_selection(s, ao, lo) ==
    IF IsNone(s.pending_action) THEN s
    ELSE LET pending == Unwrap(s.pending_action)
             t == [s EXCEPT !.pending_action = None]
         IN IF IsNone(ParseIndex(pending.action_key))
            THEN show_warning(t, "Invalid action index")
            ELSE IF IsNone(current_resource(t)) THEN show_warning(t, "No resource selected")
            ELSE IF IsNone(selected_item(t)) THEN show_warning(t, NoItemWarning)
            ELSE RunAction([t EXCEPT !.loading = TRUE, !.mode = "Normal"], pending, ao, lo)

\* A faulty execute_pending_action: it reads the pending action and leaves it
\* in place.
execute_pending_action_keeps_pending(s, ao, lo) ==
    IF IsNone(s.pending_action) THEN s
    ELSE LET pending == Unwrap(s.pending_action)
         IN IF ~pending.selected_yes THEN exit_mode(s)
            ELSE IF IsNone(ParseIndex(pending.action_key))
                 THEN show_warning(s, "Invalid action index")
            ELSE IF IsNone(current_resource(s)) THEN show_warning(s, "No resource selected")
            ELSE IF IsNone(selected_item(s)) THEN show_warning(s, NoItemWarning)
            ELSE RunAction([s EXCEPT !.loading = TRUE, !.mode = "Normal"], pending, ao, lo)

\* A faulty execute_pending_action: the mode is reset to Normal only after the
\* action request has returned.
execute_pending_action_resets_mode_late(s, ao, lo) ==
    IF IsNone(s.pending_action) THEN s
    ELSE LET pending == Unwrap(s.pending_action)
             t == [s EXCEPT !.pending_action = None]
         IN IF ~pending.selected_yes THEN exit_mode(t)
            ELSE IF IsNone(ParseIndex(pending.action_key))
                 THEN show_warning(t, "Invalid action index")
            ELSE IF IsNone(current_resource(t)) THEN show_warning(t, "No resource selected")
            ELSE IF IsNone(selected_item(t)) THEN show_warning(t, NoItemWarning)
            ELSE [RunAction([t EXCEPT !.loading = TRUE], pending, ao, lo)
                    EXCEPT !.mode = "Normal"]

\* App::execute_pending_action
execute_pending_action(s, ao, lo) ==
    IF IsNone(s.pending_action) THEN s
    ELSE LET pending == Unwrap(s.pending_action)
             t == [s EXCEPT !.pending_action = None]
         IN IF ~pending.selected_yes THEN exit_mode(t)
            ELSE IF IsNone(ParseIndex(pending.action_key))
                 THEN show_warning(t, "Invalid action index")
            ELSE IF IsNone(current_resource(t)) THEN show_warning(t, "No resource selected")
            ELSE IF IsNone(selected_item(t)) THEN show_warning(t, NoItemWarning)
            ELSE RunAction([t EXCEPT !.loading = TRUE, !.mode = "Normal"], pending, ao, lo)

(***************************************************************************)
(* The program: main, run_app and the key handlers of src/main.rs.         *)
(* One action per key (or group of keys bound to the same code).           *)
(***************************************************************************)
\* What the user types besides the keys bound in handle_normal_mode: "s" and
\* "v", which are filter text while the filter input is active and otherwise
\* the shortcuts of an action ("s") and of a sub-resource ("v").
OtherChars == {"s", "v"}

\* The command lines the user types (every prefix of one is typed on the way).
CommandLines == { <<"x">>, <<"q">>, <<"d">>, <<"S">>, <<"z","o","n">> }

IsPrefix(a, b) == Len(a) <= Len(b) /\ SubSeq(b, 1, Len(a)) = a
Typable(text) == \E line \in CommandLines : IsPrefix(text, line)
CommandChars == UNION {Range(line) : line \in CommandLines}

\* The project of the configuration and the project list fetched by App::new.
StartConfigs ==
    { [project |-> "p1", available_projects |-> <<"p1", "p2">>],
      [project |-> "",   available_projects |-> <<"p1", "p2">>],
      [project |-> "",   available_projects |-> <<"">>] }

\* An operation starts: nothing has been sent to the dispatch layer yet.
Begin(s) == [s EXCEPT !.requests = <<>>, !.action_seen = None]

\* The catalog after an operation: built by the first use, never touched again.
\* (Which operation builds it makes no difference to any of them: the build
\* reads the documents only.  The model builds it with the first operation.)
RegistryUsed == REGISTRY' = get_or_init(REGISTRY, RESOURCE_FILES) /\ UNCHANGED RESOURCE_FILES

\* A handler has run: the loop goes on with the new App.
Handled(tag, s) == app' = s /\ last' = tag /\ pc' = "loop" /\ RegistryUsed
                   /\ UNCHANGED dispatch

InMode(m) == pc = "loop" /\ app.mode = m

\* App::new has returned, for a start-up configuration among configs.
InitFrom(configs) ==
    /\ \E c \in configs, readonly \in BOOLEAN :
           app = AppNew(c.project, c.available_projects, readonly)
    /\ pc = "start"
    /\ last = "new"
    /\ RESOURCE_FILES = EmbeddedFiles
    /\ REGISTRY = None
    /\ dispatch = None

\* The program starts with a project configured.
Init == InitFrom({c \in StartConfigs : c.project # ""})

\* The program starts with or without a project.
InitAny == InitFrom(StartConfigs)

\* main: the initial fetch, only if a project is set.
InitialFetch ==
    /\ pc = "start"
    /\ \E lo \in ListOutcomes :
           Handled("initial fetch",
                   IF has_project(app) THEN refresh(Begin(app), lo) ELSE Begin(app))

\* Time passes: five seconds or more have gone by since last_refresh.
Tick ==
    /\ pc = "loop"
    /\ ~app.refresh_due
    /\ app' = [app EXCEPT !.refresh_due = TRUE]
    /\ UNCHANGED <<pc, last, RESOURCE_FILES, REGISTRY, dispatch>>

\* run_app: the auto-refresh check at the top of the loop.
AutoRefresh ==
    /\ pc = "loop"
    /\ needs_refresh(app)
    /\ \E lo \in ListOutcomes : Handled("auto refresh", refresh(Begin(app), lo))

\* ---- handle_normal_mode ----
\* The shortcut branch shared by Ctrl+D and the plain characters: trigger, then
\* execute at once unless the action asks for confirmation.
TriggerByShortcut(s, action_index, ao, lo) ==
    LET t == trigger_action(s, action_index)
    IN IF t.mode # "Confirm" THEN execute_pending_action(t, ao, lo) ELSE t

NormalQuit ==
    /\ InMode("Normal")
    /\ pc' = "quit" /\ last' = "quit" /\ app' = Begin(app)
    /\ UNCHANGED <<RESOURCE_FILES, REGISTRY, dispatch>>

NormalCtrlD ==
    /\ InMode("Normal")
    /\ \E ao \in ActionOutcomes, lo \in ListOutcomes :
         LET s == Begin(app)
             found == find_action_by_shortcut(s, "ctrl+d")
         IN Handled("ctrl+d",
                    IF IsSome(found) THEN TriggerByShortcut(s, Unwrap(found), ao, lo) ELSE s)

NormalDown == InMode("Normal") /\ Handled("cursor", next(Begin(app)))

NormalUp == InMode("Normal") /\ Handled("cursor", previous(Begin(app)))

\* 'g': go to the top when it follows a stored 'g' by less than 500 ms,
\* otherwise store it.
NormalG ==
    /\ InMode("Normal")
    /\ LET s == Begin(app) IN
       \/ /\ s.last_key_press = Some("g")
          /\ Handled("cursor", [go_to_top(s) EXCEPT !.last_key_press = None])
       \/ Handled("cursor", [s EXCEPT !.last_key_press = Some("g")])

NormalBottom == InMode("Normal") /\ Handled("cursor", go_to_bottom(Begin(app)))

NormalHome == InMode("Normal") /\ Handled("cursor", go_to_top(Begin(app)))

NormalR ==
    /\ InMode("Normal")
    /\ \E lo \in ListOutcomes : Handled("r", refresh(Begin(app), lo))

NormalDescribe == InMode("Normal") /\ Handled("open", enter_describe_mode(Begin(app)))

NormalHelp == InMode("Normal") /\ Handled("open", enter_help_mode(Begin(app)))

NormalColon == InMode("Normal") /\ Handled("open", enter_command_mode(Begin(app)))

NormalSlash ==
    /\ InMode("Normal")
    /\ Handled("/", [Begin(app) EXCEPT !.filter_active = TRUE, !.filter_text = <<>>])

\* '0'..'5': switch to a built-in zone, then refresh.
NormalZoneDigit ==
    /\ InMode("Normal")
    /\ \E i \in 1..Len(AvailableZones), lo \in ListOutcomes :
           Handled("zone digit", refresh(switch_zone(Begin(app), AvailableZones[i]), lo))

NormalBackspace ==
    /\ InMode("Normal")
    /\ \E lo \in ListOutcomes : Handled("Backspace", navigate_back(Begin(app), lo))

NormalEsc ==
    /\ InMode("Normal")
    /\ LET s == Begin(app) IN
       Handled("Esc", IF s.filter_active \/ s.filter_text # <<>> THEN clear_filter(s) ELSE s)

\* Any other character while the filter input is active: it joins the filter text.
NormalFilterChar ==
    /\ InMode("Normal")
    /\ app.filter_active
    /\ Len(app.filter_text) < MaxFilterLen
    /\ \E c \in OtherChars :
           Handled("filter char", apply_filter([Begin(app) EXCEPT !.filter_text = Append(@, c)]))

\* Any other character otherwise: a sub-resource shortcut first, then an action shortcut.
NormalShortcut ==
    /\ InMode("Normal")
    /\ ~app.filter_active
    /\ \E c \in OtherChars, ao \in ActionOutcomes, lo \in ListOutcomes :
         LET s == Begin(app)
             sub == find_sub_resource_by_shortcut(s, c)
             found == find_action_by_shortcut(s, c)
         IN IF IsSome(sub)
            THEN Handled("sub-resource shortcut", navigate_to_sub_resource(s, Unwrap(sub), lo))
            ELSE IF IsSome(found)
                 THEN Handled("action shortcut", TriggerByShortcut(s, Unwrap(found), ao, lo))
                 ELSE Handled("unbound", s)

\* ---- handle_command_mode ----
CommandEsc == InMode("Command") /\ Handled("close", exit_mode(Begin(app)))

CommandEnter ==
    /\ InMode("Command")
    /\ \E lo \in ListOutcomes :
         LET r == execute_command(Begin(app), lo)
         IN /\ app' = r.app
            /\ last' = "command Enter"
            /\ pc' = IF r.quit THEN "quit" ELSE "loop"
            /\ RegistryUsed
            /\ UNCHANGED dispatch

CommandBackspace ==
    /\ InMode("Command")
    /\ Typable(SubSeq(app.command_text, 1, Len(app.command_text) - 1))
    /\ Handled("command edit",
               update_command_suggestions(
                   [Begin(app) EXCEPT !.command_text = SubSeq(@, 1, Len(@) - 1)]))

CommandTab ==
    /\ InMode("Command")
    /\ Handled(IF IsNone(app.command_preview) THEN "command edit"
               ELSE IF app.command_text = <<"z", "o", "n">> THEN "command Tab after zon"
               ELSE "command Tab",
               apply_suggestion(Begin(app)))

CommandDown ==
    /\ InMode("Command")
    /\ Handled(IF app.command_suggestion_selected + 1 = Len(app.command_suggestions)
               THEN "command Down on the last suggestion" ELSE "command edit",
               next_suggestion(Begin(app)))

CommandUp == InMode("Command") /\ Handled("command edit", prev_suggestion(Begin(app)))

CommandChar ==
    /\ InMode("Command")
    /\ \E c \in CommandChars :
         /\ Typable(Append(app.command_text, c))
         /\ Handled("command edit",
                    update_command_suggestions(
                        [Begin(app) EXCEPT !.command_text = Append(@, c)]))

\* ---- handle_help_mode ----
HelpClose == InMode("Help") /\ Handled("close", exit_mode(Begin(app)))

\* ---- handle_confirm_mode ----
\* pending.selected_yes = yes, when a pending action exists.
SetSelectedYes(s, yes) ==
    IF IsSome(s.pending_action)
    THEN [s EXCEPT !.pending_action = Some([Unwrap(@) EXCEPT !.selected_yes = yes])]
    ELSE s

ConfirmCancel == InMode("Confirm") /\ Handled("confirm n", exit_mode(Begin(app)))

ConfirmEnter ==
    /\ InMode("Confirm")
    /\ \E ao \in ActionOutcomes, lo \in ListOutcomes :
           Handled("confirm Enter", execute_pending_action(Begin(app), ao, lo))

ConfirmYes ==
    /\ InMode("Confirm")
    /\ \E ao \in ActionOutcomes, lo \in ListOutcomes :
           Handled("confirm y",
                   execute_pending_action(SetSelectedYes(Begin(app), TRUE), ao, lo))

ConfirmLeft == InMode("Confirm") /\ Handled("confirm Left", SetSelectedYes(Begin(app), FALSE))

ConfirmRight == InMode("Confirm") /\ Handled("confirm Right", SetSelectedYes(Begin(app), TRUE))

ConfirmTab ==
    /\ InMode("Confirm")
    /\ LET s == Begin(app) IN
       Handled("confirm Tab",
               IF IsSome(s.pending_action)
               THEN SetSelectedYes(s, ~Unwrap(s.pending_action).selected_yes) ELSE s)

\* ---- handle_warning_mode ----
WarningDismiss == InMode("Warning") /\ Handled("warning dismiss", exit_mode(Begin(app)))

\* ---- handle_projects_mode ----
ProjectsEsc ==
    /\ InMode("Projects")
    /\ LET s == Begin(app) IN
       Handled("close", IF has_project(s) THEN exit_mode(s) ELSE s)

ProjectsEnter ==
    /\ InMode("Projects")
    /\ \E lo \in ListOutcomes : Handled("projects Enter", select_project(Begin(app), lo))

ProjectsMove ==
    /\ InMode("Projects")
    /\ \/ Handled("cursor", next(Begin(app)))
       \/ Handled("cursor", previous(Begin(app)))
       \/ Handled("cursor", go_to_top(Begin(app)))
       \/ Handled("cursor", go_to_bottom(Begin(app)))

\* ---- handle_zones_mode ----
ZonesEsc == InMode("Zones") /\ Handled("close", exit_mode(Begin(app)))

ZonesEnter ==
    /\ InMode("Zones")
    /\ \E lo \in ListOutcomes : Handled("zones Enter", select_zone(Begin(app), lo))

ZonesMove ==
    /\ InMode("Zones")
    /\ \/ Handled("cursor", next(Begin(app)))
       \/ Handled("cursor", previous(Begin(app)))
       \/ Handled("cursor", go_to_top(Begin(app)))
       \/ Handled("cursor", go_to_bottom(Begin(app)))

\* ---- handle_describe_mode ----
DescribeClose == InMode("Describe") /\ Handled("close", exit_mode(Begin(app)))

(***************************************************************************)
(* The program, with a project configured, as the user browses, filters,   *)
(* drills down and runs actions.  The command line and the project and     *)
(* zone selectors are left to SpecCommand and SpecZoneKeys.                *)
(***************************************************************************)
Next ==
    \/ InitialFetch \/ Tick \/ AutoRefresh
    \/ NormalQuit \/ NormalCtrlD \/ NormalDown \/ NormalUp \/ NormalBottom
    \/ NormalHome \/ NormalR \/ NormalDescribe \/ NormalHelp \/ NormalSlash
    \/ NormalBackspace \/ NormalEsc \/ NormalFilterChar \/ NormalShortcut
    \/ HelpClose
    \/ ConfirmCancel \/ ConfirmEnter \/ ConfirmYes \/ ConfirmLeft \/ ConfirmRight \/ ConfirmTab
    \/ WarningDismiss
    \/ DescribeClose

Spec == Init /\ [][Next]_vars

(***************************************************************************)
(* The program, started with or without a project, as the user works the   *)
(* command line and the project and zone selectors, moves the cursor and   *)
(* goes back; no filter text is typed and no action is triggered.          *)
(***************************************************************************)
NextCommand ==
    \/ InitialFetch
    \/ NormalQuit \/ NormalDown \/ NormalColon \/ NormalBackspace
    \/ CommandEsc \/ CommandEnter \/ CommandBackspace \/ CommandTab \/ CommandDown
    \/ CommandUp \/ CommandChar
    \/ WarningDismiss
    \/ ProjectsEsc \/ ProjectsEnter \/ ProjectsMove
    \/ ZonesEsc \/ ZonesEnter \/ ZonesMove

SpecCommand == InitAny /\ [][NextCommand]_vars

(***************************************************************************)
(* The program, with a project configured, as the user works the command   *)
(* line only: ':' opens it, keys edit the buffer and walk the suggestions, *)
(* Enter runs it, Esc leaves it and the pickers it opens.                  *)
(***************************************************************************)
NextPrompt ==
    \/ InitialFetch
    \/ NormalColon
    \/ CommandEsc \/ CommandEnter \/ CommandBackspace \/ CommandTab \/ CommandDown
    \/ CommandUp \/ CommandChar
    \/ WarningDismiss
    \/ ProjectsEsc \/ ZonesEsc

\* The program starts with a project configured and without the --readonly
\* flag, which nothing on the command line reads.
InitPrompt == Init /\ ~app.readonly

SpecPrompt == InitPrompt /\ [][NextPrompt]_vars

(***************************************************************************)
(* The program, with a project configured, as time passes and the user     *)
(* refreshes, switches zone by digit, types 'g' and works the command      *)
(* line.                                                                   *)
(***************************************************************************)
NextZoneKeys ==
    \/ InitialFetch \/ Tick \/ AutoRefresh
    \/ NormalQuit \/ NormalG \/ NormalR \/ NormalColon \/ NormalZoneDigit
    \/ CommandEsc \/ CommandEnter \/ CommandBackspace \/ CommandTab \/ CommandDown
    \/ CommandUp \/ CommandChar
    \/ WarningDismiss

SpecZoneKeys == Init /\ [][NextZoneKeys]_vars

(***************************************************************************)
(* The program, started with or without a project, as time passes while    *)
(* the user opens and closes every view: help, describe, the confirmation  *)
(* and warning dialogs, the command line and the two selectors.            *)
(***************************************************************************)
NextTimer ==
    \/ InitialFetch \/ Tick \/ AutoRefresh
    \/ NormalHelp \/ NormalDescribe \/ NormalColon \/ NormalCtrlD
    \/ HelpClose \/ DescribeClose \/ ConfirmCancel \/ ConfirmYes \/ WarningDismiss
    \/ CommandEsc \/ CommandChar \/ CommandEnter
    \/ ProjectsEsc \/ ProjectsEnter \/ ZonesEsc \/ ZonesEnter

SpecTimer == InitAny /\ [][NextTimer]_vars

(***************************************************************************)
(* The engine on its own: the operations of App called in any order with   *)
(* any argument, as its write surface allows, a caller that is not the     *)
(* event loop included.  SpecNavigate, SpecDrill and SpecGate each call a  *)
(* part of it.                                                             *)
(***************************************************************************)
\* The keys callers pass: those of the compute hierarchy and one that is not
\* in the catalog.
CallKeys == {"vm-instances", "disks", "snapshots", UnknownKey}

\* The action indices callers pass: one more than any resource declares.
CallIndices == 0..2

\* An operation of App has returned.
Returned(tag, s) == app' = s /\ last' = tag /\ pc' = "engine" /\ RegistryUsed
                    /\ UNCHANGED dispatch

InitEngine ==
    /\ \E readonly \in BOOLEAN : app = AppNew("p1", <<"p1", "p2">>, readonly)
    /\ pc = "engine"
    /\ last = "new"
    /\ RESOURCE_FILES = EmbeddedFiles
    /\ REGISTRY = None
    /\ dispatch = None

CallRefresh ==
    \E lo \in ListOutcomes :
        Returned(IF app.items = <<>> THEN "refresh"
                 ELSE IF lo.ok /\ app.selected >= Len(lo.items)
                      THEN "refresh to a list that ends before the selection"
                      ELSE "refresh over items",
                 refresh(Begin(app), lo))

\* One outcome of a list request, no matter which.
AnyListOutcome == CHOOSE lo \in ListOutcomes : ~lo.ok

\* The outcomes a caller can tell apart for an operation that is given the
\* outcome of its list request, r being its result for AnyListOutcome: every
\* outcome when it makes the request, and a single one when it makes none.
ListOutcomesSeen(r) == IF r.requests = <<>> THEN {AnyListOutcome} ELSE ListOutcomes

CallNavigateToResource ==
    \E key \in CallKeys :
      \E lo \in ListOutcomesSeen(navigate_to_resource(Begin(app), key, AnyListOutcome)) :
        Returned(IF IsSome(app.parent_context)
                 THEN "navigate_to_resource from a sub-resource"
                 ELSE "navigate_to_resource",
                 navigate_to_resource(Begin(app), key, lo))

CallNavigateToSubResource ==
    \E key \in CallKeys :
      \E lo \in ListOutcomesSeen(navigate_to_sub_resource(Begin(app), key, AnyListOutcome)) :
        Returned("navigate_to_sub_resource", navigate_to_sub_resource(Begin(app), key, lo))

CallNavigateBack ==
    \E lo \in ListOutcomesSeen(navigate_back(Begin(app), AnyListOutcome)) : Returned("navigate_back", navigate_back(Begin(app), lo))

\* The caller appends a character to filter_text and applies the filter.
CallApplyFilter ==
    /\ Len(app.filter_text) < MaxFilterLen
    /\ \E c \in OtherChars :
           Returned("apply_filter",
                    apply_filter([Begin(app) EXCEPT !.filter_text = Append(@, c)]))

CallClearFilter ==
    Returned(IF app.selected >= Len(app.items)
             THEN "clear_filter with the selection past the items"
             ELSE "clear_filter",
             clear_filter(Begin(app)))

\* The caller applies the filter to the text as it is.
CallReapplyFilter == Returned("apply_filter", apply_filter(Begin(app)))

CallNext == Returned("next", next(Begin(app)))

CallPrevious == Returned("previous", previous(Begin(app)))

CallTriggerAction ==
    \E action_index \in CallIndices :
        Returned("trigger_action", trigger_action(Begin(app), action_index))

\* The caller sets the pending action's selection.
CallSelect ==
    /\ IsSome(app.pending_action)
    /\ \E yes \in BOOLEAN : Returned("select", SetSelectedYes(Begin(app), yes))

CallExecutePendingAction ==
    \E ao \in ActionOutcomes, lo \in ListOutcomes :
        Returned(IF IsNone(app.pending_action)
                 THEN "execute_pending_action with none pending"
                 ELSE IF app.mode = "Confirm" /\ Unwrap(app.pending_action).selected_yes
                 THEN "execute_pending_action from the dialog on yes"
                 ELSE "execute_pending_action",
                 execute_pending_action(Begin(app), ao, lo))

CallExitMode == Returned("exit_mode", exit_mode(Begin(app)))

\* The engine as a caller browses: refresh, navigation, filter and cursor.
NextNavigate ==
    \/ CallRefresh \/ CallNavigateToResource \/ CallNavigateToSubResource
    \/ CallNavigateBack \/ CallApplyFilter \/ CallClearFilter \/ CallNext
    \/ CallExitMode

\* App::new without the --readonly flag, which no navigation reads.
InitNavigate == InitEngine /\ ~app.readonly

SpecNavigate == InitNavigate /\ [][NextNavigate]_vars

\* The engine as a caller moves between resources: jumps to the top level,
\* drill-downs from the item the cursor was moved to, and returns, each with
\* the list request it makes.
NextFrames ==
    \/ CallNavigateToResource \/ CallNavigateToSubResource \/ CallNavigateBack
    \/ CallNext

SpecFrames == InitNavigate /\ [][NextFrames]_vars

\* Drilling down and coming back, over lists that are refreshed, filtered and
\* walked.
NextDrill ==
    \/ CallRefresh \/ CallNavigateToSubResource \/ CallNavigateBack
    \/ CallApplyFilter \/ CallNext

SpecDrill == InitNavigate /\ [][NextDrill]_vars

\* The characters of a filter text: those typed, and an upper-case one.
FilterChars == OtherChars \cup {"V"}

RECURSIVE SeqsUpTo(_, _)
\* The sequences over S of length n or less.
SeqsUpTo(S, n) ==
    IF n = 0 THEN {<<>>}
    ELSE LET shorter == SeqsUpTo(S, n - 1)
         IN shorter \cup {Append(p, x) : p \in shorter, x \in S}

\* The public fields apply_filter reads hold any item list, any filter text
\* and any selection index, under a catalog key or a key that names no
\* resource.
InitFilter ==
    /\ \E items \in SeqsUpTo(Items, MaxItems),
          filter_text \in SeqsUpTo(FilterChars, MaxFilterLen),
          selected \in 0..(MaxItems + 1),
          resource_key \in {"vm-instances", UnknownKey} :
           app = [AppNew("p1", <<"p1", "p2">>, FALSE)
                    EXCEPT !.items = items, !.filter_text = filter_text,
                           !.selected = selected, !.resource_key = resource_key]
    /\ pc = "engine"
    /\ last = "new"
    /\ RESOURCE_FILES = EmbeddedFiles
    /\ REGISTRY = None
    /\ dispatch = None

\* The filter operations on their own, from any input.
NextFilter == CallApplyFilter \/ CallReapplyFilter \/ CallClearFilter

SpecFilter == InitFilter /\ [][NextFilter]_vars

\* The engine as a caller runs actions on the items of the start resource.
NextGate ==
    \/ CallRefresh \/ CallNext \/ CallPrevious
    \/ CallTriggerAction \/ CallSelect \/ CallExecutePendingAction \/ CallExitMode

SpecGate == InitEngine /\ [][NextGate]_vars

(***************************************************************************)
(* The catalog on its own: any documents, in any order, some defining the  *)
(* same key, some that do not parse; the callers of the registry module    *)
(* ask for the catalog and look keys up.                                   *)
(***************************************************************************)
MaxFiles == 2

\* The keys the documents define.
DocumentKeys == {"disks", "snapshots"}

\* The documents: one that does not parse, and every assignment of one of two
\* definitions to some of the keys.
Documents ==
    {Document(FALSE, <<>>)} \cup
    {Document(TRUE, resources) :
        resources \in UNION {[keys -> {Registry["disks"], Registry["snapshots"]}] :
                                keys \in SUBSET DocumentKeys}}

InitRegistry ==
    /\ RESOURCE_FILES \in SeqsUpTo(Documents, MaxFiles)
    /\ REGISTRY = None
    /\ dispatch = None
    /\ app = AppNew("p1", <<"p1", "p2">>, FALSE)
    /\ pc = "engine"
    /\ last = "new"

\* A call has gone through get_registry: the cell is full and the caller goes
\* on, or the initialiser has panicked.
RegistryAsked(tag) ==
    LET cell == get_or_init(REGISTRY, RESOURCE_FILES)
    IN /\ REGISTRY' = cell
       /\ pc' = IF IsSome(cell) THEN "engine" ELSE "panic"
       /\ last' = IF IsSome(cell) THEN tag ELSE "panic"
       /\ UNCHANGED <<app, RESOURCE_FILES, dispatch>>

CallGetRegistry == pc = "engine" /\ RegistryAsked("get_registry")

CallGetResource ==
    /\ pc = "engine"
    /\ \E key \in DocumentKeys \cup {UnknownKey} :
           RegistryAsked(IF IsSome(get_resource(key)) THEN "get_resource found a definition"
                         ELSE "get_resource found none")

NextRegistry == CallGetRegistry \/ CallGetResource

SpecRegistry == InitRegistry /\ [][NextRegistry]_vars

(***************************************************************************)
(* Properties.                                                             *)
(***************************************************************************)
\* The action requests among the calls s.requests records.
ActionRequestsIn(s) == {i \in 1..Len(s.requests) : s.requests[i].kind = "action"}

\* The request runs an action that declares a confirmation.
ConfirmDeclared(req) ==
    /\ req.kind = "action"
    /\ IsSome(Get(Registry[req.resource].actions, req.index))
    /\ IsSome(At(Registry[req.resource].actions, req.index).confirm)

\* The key is declared among the sub-resources of the current resource of s.
DeclaredSubResource(s, key) ==
    /\ IsSome(current_resource(s))
    /\ \E i \in 1..Len(Unwrap(current_resource(s)).sub_resources) :
           Unwrap(current_resource(s)).sub_resources[i].resource_key = key

\* C1: in every reachable state the selection index is smaller than the number
\* of filtered items when the filtered list is non-empty, and is 0 when the
\* filtered list is empty.
C1_SelectionInRange ==
    /\ app.filtered_items # <<>> => app.selected < Len(app.filtered_items)
    /\ app.filtered_items = <<>> => app.selected = 0

\* C2: an action that declares a confirmation is sent to the dispatch layer
\* only from Confirm mode with "yes" selected (or on the quick-yes key);
\* Confirm mode is entered with "no" selected; in Confirm mode only the
\* user's Right and Tab keys turn "no" into "yes"; Enter with "no" still
\* selected sends nothing.
C2_ConfirmGate ==
    [][~Tick =>
        /\ (\E i \in 1..Len(app'.requests) : ConfirmDeclared(app'.requests[i]))
             => /\ app.mode = "Confirm"
                /\ IsSome(app.pending_action)
                /\ Unwrap(app.pending_action).selected_yes \/ last' = "confirm y"
        /\ (app.mode # "Confirm" /\ app'.mode = "Confirm")
             => IsSome(app'.pending_action) /\ ~Unwrap(app'.pending_action).selected_yes
        /\ (/\ app.mode = "Confirm" /\ app'.mode = "Confirm"
            /\ IsSome(app.pending_action) /\ IsSome(app'.pending_action)
            /\ ~Unwrap(app.pending_action).selected_yes
            /\ Unwrap(app'.pending_action).selected_yes)
             => last' \in {"confirm Right", "confirm Tab"}
        /\ (/\ app.mode = "Confirm" /\ last' = "confirm Enter"
            /\ IsSome(app.pending_action) /\ ~Unwrap(app.pending_action).selected_yes)
             => app'.requests = <<>>
    ]_vars

\* A confirmed action has been sent: Enter in the dialog, with "yes" selected.
C2_Witness ==
    /\ last = "confirm Enter"
    /\ \E i \in 1..Len(app.requests) : ConfirmDeclared(app.requests[i])

\* C3: in read-only mode trigger_action only raises the read-only warning, for
\* every action index; no pending action ever exists and no action request is
\* ever made.
C3_ReadonlyNeverActs ==
    app.readonly =>
        /\ IsNone(app.pending_action)
        /\ ActionRequestsIn(app) = {}
        /\ \A action_index \in CallIndices :
               trigger_action(Begin(app), action_index)
                   = show_warning(Begin(app), ReadonlyWarning)
        /\ last = "trigger_action"
             => app.mode = "Warning" /\ app.warning_message = Some(ReadonlyWarning)

\* trigger_action has returned in read-only mode, with an item under the cursor.
C3_Witness ==
    /\ app.readonly
    /\ last = "trigger_action"
    /\ IsSome(selected_item(app))
    /\ app.mode = "Warning"

\* C4: execute_pending_action on a pending action whose selection is "no"
\* makes no request, leaves items, filtered_items and selected as they were,
\* and returns in Normal mode with no pending action.
C4_DeclinedActionSendsNothing ==
    (IsSome(app.pending_action) /\ ~Unwrap(app.pending_action).selected_yes) =>
        \A ao \in ActionOutcomes, lo \in ListOutcomes :
            LET r == execute_pending_action(Begin(app), ao, lo)
            IN /\ r.requests = <<>>
               /\ r.items = app.items
               /\ r.filtered_items = app.filtered_items
               /\ r.selected = app.selected
               /\ r.mode = "Normal"
               /\ IsNone(r.pending_action)

\* execute_pending_action has returned from a pending action with "no"
\* selected: a pending action with "yes" either makes a request or ends in
\* Warning mode.
C4_Witness ==
    /\ last = "execute_pending_action"
    /\ app.requests = <<>>
    /\ app.mode = "Normal"
    /\ IsSome(selected_item(app))

\* C5: execute_pending_action leaves no pending action on any path and makes
\* at most one action request; called again, or with none pending, it changes
\* nothing and makes no request.
C5_PendingConsumedOnce ==
    /\ last \in {"execute_pending_action", "execute_pending_action with none pending",
                 "execute_pending_action from the dialog on yes"}
         => IsNone(app.pending_action)
    /\ \A ao \in ActionOutcomes, lo \in ListOutcomes :
           LET r == execute_pending_action(Begin(app), ao, lo)
           IN /\ IsNone(r.pending_action)
              /\ Cardinality(ActionRequestsIn(r)) <= 1
              /\ IsNone(app.pending_action) => r = Begin(app)
              /\ \A ao2 \in ActionOutcomes, lo2 \in ListOutcomes :
                     execute_pending_action(Begin(r), ao2, lo2) = Begin(r)

\* execute_pending_action has been called with none pending after a call that
\* ran an action, which failed.
C5_Witness ==
    /\ last = "execute_pending_action with none pending"
    /\ IsSome(app.error)
    /\ Unwrap(app.error).kind = "Action failed"
    /\ app.requests = <<>>

\* C6: when its list request fails, refresh returns with items and
\* filtered_items empty, selected 0, the error set and the mode Warning; no
\* state holds items together with the error of a failed list request.
C6_FailedRefreshClearsLists ==
    /\ \A lo \in ListOutcomes :
           ~lo.ok =>
               LET r == refresh(Begin(app), lo)
               IN /\ r.requests # <<>>
                  /\ r.items = <<>>
                  /\ r.filtered_items = <<>>
                  /\ r.selected = 0
                  /\ IsSome(r.error)
                  /\ r.mode = "Warning"
    /\ (IsSome(app.error) /\ Unwrap(app.error).kind = "Upstream")
         => app.items = <<>> /\ app.filtered_items = <<>> /\ app.selected = 0

\* refresh has returned from a failed list request, called with items listed.
C6_Witness ==
    /\ last = "refresh over items"
    /\ IsSome(app.error)
    /\ Unwrap(app.error).kind = "Upstream"
    /\ app.mode = "Warning"
    /\ app.items = <<>>

\* C7: at the end of every user operation, if an error text is recorded then
\* the mode is Warning, the only mode in which the error is drawn and can be
\* dismissed.
C7_ErrorsShownAsDialog ==
    (pc = "loop" /\ IsSome(app.error)) => app.mode = "Warning"

\* C8: navigate_to_resource with a key that is not in the catalog records the
\* error, makes no list request and leaves resource_key, items,
\* filtered_items, selected, filter_text, parent_context and navigation_stack
\* as they were.
C8_UnknownResourceChangesNothing ==
    \A key \in CallKeys \ ResourceKeys, lo \in ListOutcomes :
        LET r == navigate_to_resource(Begin(app), key, lo)
        IN /\ r.error = Some(Msg("Unknown resource", key, <<>>))
           /\ r.requests = <<>>
           /\ r.resource_key = app.resource_key
           /\ r.items = app.items
           /\ r.filtered_items = app.filtered_items
           /\ r.selected = app.selected
           /\ r.filter_text = app.filter_text
           /\ r.parent_context = app.parent_context
           /\ r.navigation_stack = app.navigation_stack

\* navigate_to_resource has returned from an unknown key, called inside a
\* sub-resource with the cursor off the first item.
C8_Witness ==
    /\ last = "navigate_to_resource from a sub-resource"
    /\ app.error = Some(Msg("Unknown resource", UnknownKey, <<>>))
    /\ IsSome(app.parent_context)
    /\ app.selected > 0

\* C9: navigate_to_resource with a catalog key, from any depth, returns with
\* no parent context, an empty navigation stack, resource_key the requested
\* key, an empty filter text and exactly one list request, with no parent
\* item; if the request succeeds the mode is Normal and selected is 0.
C9_TopLevelJumpClearsContext ==
    \A key \in ResourceKeys, lo \in ListOutcomes :
        LET r == navigate_to_resource(Begin(app), key, lo)
        IN /\ IsNone(r.parent_context)
           /\ r.navigation_stack = <<>>
           /\ r.resource_key = key
           /\ r.filter_text = <<>>
           /\ r.requests = <<ListRequest(key, None)>>
           /\ lo.ok => r.mode = "Normal" /\ r.selected = 0

\* navigate_to_resource has returned from a catalog key, called inside a
\* sub-resource, and its list request succeeded.
C9_Witness ==
    /\ last = "navigate_to_resource from a sub-resource"
    /\ IsNone(app.error)
    /\ IsNone(app.parent_context)
    /\ app.requests = <<ListRequest(app.resource_key, None)>>
    /\ app.items # <<>>

\* C10: navigate_to_sub_resource with an item selected and a key that is not
\* declared under the current resource records the error, makes no list
\* request, pushes nothing and leaves resource_key, parent_context, items,
\* filtered_items, selected and filter_text as they were; with no item
\* selected it changes nothing.
C10_UndeclaredSubResourceChangesNothing ==
    \A key \in CallKeys, lo \in ListOutcomes :
        LET r == navigate_to_sub_resource(Begin(app), key, lo)
        IN /\ IsNone(selected_item(app)) => r = Begin(app)
           /\ (IsSome(selected_item(app)) /\ ~DeclaredSubResource(app, key))
                => /\ r.error = Some(Msg("Not a sub-resource", app.resource_key, <<key>>))
                   /\ r.requests = <<>>
                   /\ r.navigation_stack = app.navigation_stack
                   /\ r.resource_key = app.resource_key
                   /\ r.parent_context = app.parent_context
                   /\ r.items = app.items
                   /\ r.filtered_items = app.filtered_items
                   /\ r.selected = app.selected
                   /\ r.filter_text = app.filter_text

\* navigate_to_sub_resource has returned from an undeclared key, called inside
\* a sub-resource with an item selected.
C10_Witness ==
    /\ last = "navigate_to_sub_resource"
    /\ IsSome(app.error)
    /\ Unwrap(app.error).kind = "Not a sub-resource"
    /\ IsSome(app.parent_context)
    /\ IsSome(selected_item(app))

\* C11: with an item selected and a key declared under the current resource,
\* navigate_to_sub_resource followed by navigate_back ends with the resource
\* key, the length of the navigation stack and the presence of a parent
\* context as they were, whether the two list requests succeed or fail.
C11_DrillDownThenBackRestores ==
    \A key \in ResourceKeys, lo1 \in ListOutcomes, lo2 \in ListOutcomes :
        (IsSome(selected_item(app)) /\ DeclaredSubResource(app, key)) =>
            LET down == navigate_to_sub_resource(Begin(app), key, lo1)
                back == navigate_back(Begin(down), lo2)
            IN /\ down.resource_key = key
               /\ back.resource_key = app.resource_key
               /\ Len(back.navigation_stack) = Len(app.navigation_stack)
               /\ IsSome(back.parent_context) = IsSome(app.parent_context)

\* navigate_back has returned to a sub-resource, from the sub-resource drilled
\* into below it, and its list request failed.
C11_Witness ==
    /\ last = "navigate_back"
    /\ app.resource_key = "disks"
    /\ IsSome(app.parent_context)
    /\ app.navigation_stack = <<>>
    /\ IsSome(app.error)
    /\ Unwrap(app.error).kind = "Upstream"

\* C12: navigate_back with no parent context makes no request and leaves the
\* resource key, items, filtered_items, selected and filter_text; with a
\* parent context it sets the resource key to the context's origin key, makes
\* the top stack frame (or none) the parent context, empties the filter,
\* ends with selected 0 and makes one list request for the origin key.
C12_NavigateBackFrame ==
    \A lo \in ListOutcomes :
        LET r == navigate_back(Begin(app), lo)
            n == Len(app.navigation_stack)
        IN IF IsNone(app.parent_context)
           THEN /\ r.requests = <<>>
                /\ r.resource_key = app.resource_key
                /\ r.items = app.items
                /\ r.filtered_items = app.filtered_items
                /\ r.selected = app.selected
                /\ r.filter_text = app.filter_text
           ELSE /\ r.resource_key = app.parent_context[1].resource_key
                /\ r.parent_context = IF n = 0 THEN <<>> ELSE <<app.navigation_stack[n]>>
                /\ r.navigation_stack = [i \in 1..SatSub(n, 1) |-> app.navigation_stack[i]]
                /\ r.selected = 0
                /\ r.filter_text = <<>>
                /\ ~r.filter_active
                /\ Len(r.requests) = 1
                /\ r.requests[1].kind = "list"
                /\ r.requests[1].resource = app.parent_context[1].resource_key

\* navigate_back has returned to the top-level resource and listed it.
C12_Witness ==
    /\ last = "navigate_back"
    /\ app.resource_key = "vm-instances"
    /\ IsNone(app.parent_context)
    /\ Len(app.requests) = 1
    /\ app.items # <<>>

\* The label of a frame captured from the item: its name, or its id when the
\* name is missing.
FrameLabel(item) ==
    IF extract_json_value(item, "name") # Sentinel
    THEN extract_json_value(item, "name") ELSE extract_json_value(item, "id")

\* C13: get_breadcrumb lists one labelled entry per stack frame, oldest
\* first, then one for the parent context if any, then the bare current key.
\* A top-level jump leaves the single entry of the key; each drill-down
\* turns the last entry into the labelled entry of the resource left and
\* appends the key entered, so k nested drill-downs give k+1 entries whose
\* keys are the resources visited, in order.
C13_BreadcrumbOrder ==
    LET path == get_breadcrumb(app)
        n == Len(app.navigation_stack)
    IN /\ Len(path) = n + Len(app.parent_context) + 1
       /\ \A i \in 1..n :
              path[i] = <<app.navigation_stack[i].resource_key,
                          app.navigation_stack[i].display_name>>
       /\ IsSome(app.parent_context)
            => path[n + 1] = <<app.parent_context[1].resource_key,
                               app.parent_context[1].display_name>>
       /\ path[Len(path)] = <<app.resource_key, <<>> >>
       /\ \A i \in 1..(Len(path) - 1) :
              \E j \in 1..Len(Registry[path[i][1]].sub_resources) :
                  Registry[path[i][1]].sub_resources[j].resource_key = path[i + 1][1]
       /\ \A key \in ResourceKeys, lo \in ListOutcomes :
              /\ get_breadcrumb(navigate_to_resource(Begin(app), key, lo))
                     = << <<key, <<>> >> >>
              /\ (IsSome(selected_item(app)) /\ DeclaredSubResource(app, key))
                   => get_breadcrumb(navigate_to_sub_resource(Begin(app), key, lo))
                          = SubSeq(path, 1, Len(path) - 1)
                              \o << <<app.resource_key, FrameLabel(Unwrap(selected_item(app)))>>,
                                    <<key, <<>> >> >>

\* Two nested drill-downs from the top-level resource: three entries.
C13_Witness ==
    /\ last = "navigate_to_sub_resource"
    /\ Len(app.navigation_stack) = 1
    /\ Len(get_breadcrumb(app)) = 3
    /\ get_breadcrumb(app)[1][1] = "vm-instances"
    /\ get_breadcrumb(app)[2][1] = "disks"
    /\ get_breadcrumb(app)[3][1] = "snapshots"

\* C14: needs_refresh holds only in Normal mode, not loading, with no error
\* recorded, a project selected and the refresh interval elapsed; so the
\* loop's auto-refresh runs only from such a state, never while another view
\* is open or an error is recorded.
C14_AutoRefreshOnlyWhenIdle ==
    [][/\ needs_refresh(app)
            => /\ app.mode = "Normal"
               /\ ~app.loading
               /\ IsNone(app.error)
               /\ app.project # ""
               /\ app.refresh_due
       /\ (~Tick /\ last' = "auto refresh")
            => /\ app.mode = "Normal"
               /\ ~app.loading
               /\ IsNone(app.error)
               /\ app.project # ""
               /\ app.refresh_due
    ]_vars

\* The auto-refresh has run and made its list request.
C14_Witness ==
    /\ last = "auto refresh"
    /\ Len(app.requests) = 1
    /\ app.requests[1].kind = "list"
    /\ ~app.refresh_due

\* C15: for every item list, filter text and selection index, applying the
\* filter twice gives the same filtered list and the same selection index as
\* applying it once.
C15_FilterIdempotent ==
    LET once == apply_filter(Begin(app))
        twice == apply_filter(once)
    IN /\ twice.filtered_items = once.filtered_items
       /\ twice.selected = once.selected
       /\ last = "apply_filter" => apply_filter(Begin(app)) = Begin(app)

\* The filter has been applied to two items, one of which matches.
C15_Witness ==
    /\ last = "apply_filter"
    /\ Len(app.items) = 2
    /\ Len(app.filtered_items) = 1
    /\ app.filter_text # <<>>
    /\ app.selected = 0

\* C16 as stated: with an empty filter text the filtered list is the item
\* list, and the selection index is kept if it is smaller than the length and
\* is otherwise 0.
C16_EmptyFilterResetsToZero ==
    app.filter_text = <<>> =>
        LET r == apply_filter(Begin(app))
        IN /\ r.filtered_items = app.items
           /\ r.selected = IF app.selected < Len(app.items) THEN app.selected ELSE 0

\* C16, amended: with an empty filter text (apply_filter), or after
\* clear_filter, the filtered list is the item list, same elements in the
\* same order; the selection index is kept if it is smaller than the length
\* and otherwise, when there are items, becomes the last index.
C16_EmptyFilterClampsToLast ==
    /\ app.filter_text = <<>> =>
           LET r == apply_filter(Begin(app))
           IN /\ r.filtered_items = app.items
              /\ app.selected < Len(app.items) => r.selected = app.selected
              /\ (app.selected >= Len(app.items) /\ app.items # <<>>)
                   => r.selected = Len(app.items) - 1
    /\ LET c == clear_filter(Begin(app))
       IN /\ c.filter_text = <<>>
          /\ ~c.filter_active
          /\ c.filtered_items = app.items
          /\ app.selected < Len(app.items) => c.selected = app.selected
          /\ (app.selected >= Len(app.items) /\ app.items # <<>>)
               => c.selected = Len(app.items) - 1

\* clear_filter has returned, called with two items and the selection past
\* them.
C16_Witness ==
    /\ last = "clear_filter with the selection past the items"
    /\ Len(app.items) = 2
    /\ app.filtered_items = app.items
    /\ app.selected = 1

(***************************************************************************)
(* C17: whenever the command line is open, running it with the typed       *)
(* buffer exactly q or quit signals exit, with exactly back gives the      *)
(* state navigate_back gives (in Normal mode), with exactly projects or    *)
(* zones enters that selection mode, and exit is signalled only when the   *)
(* first word typed is q or quit.                                          *)
(***************************************************************************)
C17_VerbsRunAsTyped ==
    InMode("Command") =>
        \A lo \in ListOutcomes :
            LET typed == app.command_text
                words == SplitWhitespace(typed, <<>>)
                r == execute_command(Begin(app), lo)
            IN /\ typed \in {Chars["q"], Chars["quit"]} => r.quit
               /\ typed = Chars["back"] =>
                      /\ ~r.quit
                      /\ r.app = [navigate_back(Begin(app), lo) EXCEPT !.mode = "Normal"]
               /\ typed = Chars["projects"] => ~r.quit /\ r.app.mode = "Projects"
               /\ typed = Chars["zones"] => ~r.quit /\ r.app.mode = "Zones"
               /\ r.quit => words # <<>> /\ words[1] \in {Chars["q"], Chars["quit"]}

(***************************************************************************)
(* C18: whenever the command line is open, running it without signalling   *)
(* exit leaves the mode Projects when the executed verb is projects, Zones *)
(* when it is zones, and Normal in every other case, the empty command     *)
(* line included.                                                          *)
(***************************************************************************)
C18_CommandEndsInNormal ==
    InMode("Command") =>
        \A lo \in ListOutcomes :
            LET parts == SplitWhitespace(EffectiveCommand(app), <<>>)
                r == execute_command(Begin(app), lo)
            IN ~r.quit =>
                   r.app.mode = IF parts # <<>> /\ parts[1] = Chars["projects"] THEN "Projects"
                                ELSE IF parts # <<>> /\ parts[1] = Chars["zones"] THEN "Zones"
                                ELSE "Normal"

(***************************************************************************)
(* C19: whenever the command line is open with a preview, accepting it     *)
(* makes the buffer the previewed text and leaves as suggestions exactly   *)
(* the available commands that contain that text, the preview being the    *)
(* selected one of them; with no preview nothing changes.  With the buffer *)
(* zon the suggestions contain zones, and accepting the preview zones      *)
(* makes the buffer the word zones.                                        *)
(***************************************************************************)
C19_AcceptCopiesPreviewAndFilters ==
    InMode("Command") =>
        LET s == Begin(app)
            r == apply_suggestion(s)
        IN /\ IsNone(s.command_preview) => r = s
           /\ IsSome(s.command_preview) =>
                  LET text == Chars[Unwrap(s.command_preview)]
                      matching == SelectSeq(get_available_commands,
                                            LAMBDA cmd : Contains(Chars[cmd], ToLowercase(text)))
                  IN /\ r.command_text = text
                     /\ r.command_suggestions = matching
                     /\ r.command_suggestion_selected < Len(matching)
                     /\ r.command_preview = Some(matching[r.command_suggestion_selected + 1])
                     /\ r.mode = "Command"
           /\ s.command_text = <<"z", "o", "n">> =>
                  /\ "zones" \in Range(s.command_suggestions)
                  /\ s.command_preview = Some("zones") =>
                         r.command_text = <<"z", "o", "n", "e", "s">>

\* With zon typed, the previewed suggestion zones has been accepted into the
\* buffer.
C19_Witness ==
    /\ last = "command Tab after zon"
    /\ app.mode = "Command"
    /\ app.command_text = <<"z", "o", "n", "e", "s">>
    /\ app.command_suggestions = <<"zones">>

(***************************************************************************)
(* C20: once the catalog is built, looking a key up gives the definition   *)
(* of the last document that defines it, and nothing for a key no document *)
(* defines; documents that all parse build a catalog without a panic,      *)
(* whatever keys they share; and a built catalog never changes.            *)
(***************************************************************************)
C20_LastDocumentWins ==
    /\ [](IsSome(REGISTRY) =>
            \A key \in DocumentKeys \cup ResourceKeys \cup {UnknownKey} :
                LET defining == {i \in 1..Len(RESOURCE_FILES) :
                                    key \in DOMAIN RESOURCE_FILES[i].resources}
                    latest == CHOOSE i \in defining : \A j \in defining : j <= i
                IN get_resource(key) =
                       IF defining = {} THEN None
                       ELSE Some(RESOURCE_FILES[latest].resources[key]))
    /\ []((\A i \in 1..Len(RESOURCE_FILES) : RESOURCE_FILES[i].well_formed) =>
              pc # "panic" /\ IsSome(get_or_init(REGISTRY, RESOURCE_FILES)))
    /\ [][IsSome(REGISTRY) => REGISTRY' = REGISTRY]_vars

\* A key has been looked up in a catalog built from two documents that define
\* disks differently.
C20_Witness ==
    /\ last = "get_resource found a definition"
    /\ IsSome(REGISTRY)
    /\ Len(RESOURCE_FILES) = 2
    /\ "disks" \in DOMAIN RESOURCE_FILES[1].resources
    /\ "disks" \in DOMAIN RESOURCE_FILES[2].resources
    /\ RESOURCE_FILES[1].resources["disks"] # RESOURCE_FILES[2].resources["disks"]
    /\ get_resource("disks") = Some(RESOURCE_FILES[2].resources["disks"])

(***************************************************************************)
(* C21: from every state with an item selected, for every declared         *)
(* sub-resource key and every list outcome, navigate_to_sub_resource ends  *)
(* with that key current, a parent context holding the key it left and the *)
(* item that was selected, the previous context (if any) on top of the     *)
(* stack, and one list request carrying that item as parent; refreshing or *)
(* filtering the lists afterwards leaves the context as captured.          *)
(***************************************************************************)
C21_DrillDownCapturesSelectedItem ==
    \A key \in ResourceKeys, lo \in ListOutcomes :
        (IsSome(selected_item(app)) /\ DeclaredSubResource(app, key)) =>
            LET item == Unwrap(selected_item(app))
                r == navigate_to_sub_resource(Begin(app), key, lo)
            IN /\ r.resource_key = key
               /\ IsSome(r.parent_context)
               /\ Unwrap(r.parent_context).resource_key = app.resource_key
               /\ Unwrap(r.parent_context).resource_key # key
               /\ Unwrap(r.parent_context).item = item
               /\ r.navigation_stack = app.navigation_stack \o app.parent_context
               /\ r.requests = <<ListRequest(key, Some(item))>>
               /\ \A lo2 \in ListOutcomes :
                      refresh(Begin(r), lo2).parent_context = r.parent_context
               /\ apply_filter(Begin(r)).parent_context = r.parent_context
               /\ clear_filter(Begin(r)).parent_context = r.parent_context

\* A second drill-down has returned: the context of the first is on the stack
\* and the list request carried the item captured by the second.
C21_Witness ==
    /\ last = "navigate_to_sub_resource"
    /\ app.resource_key = "snapshots"
    /\ Len(app.navigation_stack) = 1
    /\ app.navigation_stack[1].resource_key = "vm-instances"
    /\ IsSome(app.parent_context)
    /\ Unwrap(app.parent_context).resource_key = "disks"
    /\ app.requests = <<ListRequest("snapshots", Some(Unwrap(app.parent_context).item))>>
    /\ app.items # <<Unwrap(app.parent_context).item>>

(***************************************************************************)
(* C22: from every state whose resource key is in the catalog, for every   *)
(* successful list outcome, refresh ends with the item list equal to the   *)
(* returned sequence, the filtered list equal to what the filter text      *)
(* selects from it, and the selection index as before if it is smaller     *)
(* than the new filtered length, else 0.                                   *)
(***************************************************************************)
C22_RefreshReplacesItems ==
    \A lo \in ListOutcomes :
        (lo.ok /\ IsSome(get_resource(app.resource_key))) =>
            LET r == refresh(Begin(app), lo)
                filter == ToLowercase(app.filter_text)
            IN /\ r.items = lo.items
               /\ r.filtered_items =
                      IF filter = <<>> THEN lo.items
                      ELSE SelectSeq(lo.items, LAMBDA item : FilterMatches(app, filter, item))
               /\ r.filtered_items = apply_filter([app EXCEPT !.items = lo.items]).filtered_items
               /\ r.selected = IF app.selected < Len(r.filtered_items) THEN app.selected ELSE 0
               /\ r.filter_text = app.filter_text

\* refresh has replaced a list by one that ends before the item selected: the
\* selection is back at 0.
C22_Witness ==
    /\ last = "refresh to a list that ends before the selection"
    /\ IsNone(app.error)
    /\ Len(app.requests) = 1
    /\ Len(app.items) = 1
    /\ app.filtered_items = app.items
    /\ app.selected = 0

(***************************************************************************)
(* C23: loading is false in every state the event loop observes.  From     *)
(* every such state refresh ends with loading false and the refresh stamp  *)
(* current, so that needs_refresh is false, whether the list request       *)
(* succeeds or fails or the resource key has no definition; and            *)
(* execute_pending_action ends with loading false whatever the dialog's    *)
(* selection and the outcome of the action.                                *)
(***************************************************************************)
C23_LoadingCleared ==
    /\ ~app.loading
    /\ \A lo \in ListOutcomes, key \in {app.resource_key, UnknownKey} :
           LET r == refresh([Begin(app) EXCEPT !.resource_key = key], lo)
           IN ~r.loading /\ ~r.refresh_due /\ ~needs_refresh(r)
    /\ \A ao \in ActionOutcomes, lo \in ListOutcomes, yes \in BOOLEAN :
           ~execute_pending_action(SetSelectedYes(Begin(app), yes), ao, lo).loading

\* A confirmed action has failed upstream: the handler has returned with the
\* error recorded and loading false.
C23_Witness ==
    /\ last = "confirm y"
    /\ Len(app.requests) = 1
    /\ app.requests[1].kind = "action"
    /\ IsSome(app.error)
    /\ Unwrap(app.error).kind = "Action failed"
    /\ ~app.loading

(***************************************************************************)
(* C24: whenever the command line is open, the command executed is the     *)
(* preview when the buffer is empty or when the preview contains the       *)
(* buffer, and the buffer otherwise (no preview, or one that does not      *)
(* contain it); running the command line gives what running that text,     *)
(* typed with no preview, gives, and its first word decides the verb: exit *)
(* is signalled exactly when that word is q or quit.                       *)
(***************************************************************************)
C24_EffectiveCommandResolution ==
    InMode("Command") =>
        LET typed == app.command_text
            preview == app.command_preview
            effective ==
                CASE typed = <<>> /\ IsSome(preview) -> Chars[Unwrap(preview)]
                  [] typed # <<>> /\ IsSome(preview)
                       /\ Contains(Chars[Unwrap(preview)], typed) -> Chars[Unwrap(preview)]
                  [] OTHER -> typed
            words == SplitWhitespace(effective, <<>>)
            literal == [Begin(app) EXCEPT !.command_text = effective, !.command_preview = None]
            same(x) == [x EXCEPT !.command_text = <<>>, !.command_preview = None]
        IN /\ EffectiveCommand(app) = effective
           /\ \A lo \in ListOutcomes :
                  LET r == execute_command(Begin(app), lo)
                      l == execute_command(literal, lo)
                  IN /\ r.quit = l.quit
                     /\ same(r.app) = same(l.app)
                     /\ r.quit <=> (words # <<>> /\ words[1] \in {Chars["q"], Chars["quit"]})

\* The buffer d was run with the preview bq-datasets, which contains it: the
\* program is on bq-datasets.
C24_Witness ==
    /\ last = "command Enter"
    /\ app.command_text = <<"d">>
    /\ app.command_preview = Some("bq-datasets")
    /\ app.resource_key = "bq-datasets"
    /\ app.mode = "Normal"

(***************************************************************************)
(* C25: whenever the command line is open and the verb of the command is a *)
(* catalog key, running it drills down into that key (context captured     *)
(* from the selected item, the frames kept) exactly when the key is        *)
(* declared under the current resource and an item is selected, and        *)
(* otherwise enters the key from the top with no context and no frames;    *)
(* a verb that is neither a catalog key nor one of the built-in verbs      *)
(* records an unknown-command error and leaves the resource key and both   *)
(* item lists.                                                             *)
(***************************************************************************)
C25_CatalogVerbNavigates ==
    InMode("Command") =>
        \A lo \in ListOutcomes :
            LET s == Begin(app)
                words == SplitWhitespace(EffectiveCommand(app), <<>>)
                verb == Word(words[1])
                r == execute_command(s, lo)
            IN words # <<>> =>
                 /\ verb \in ResourceKeys =>
                       IF DeclaredSubResource(app, verb) /\ IsSome(selected_item(app))
                       THEN /\ r.app = [navigate_to_sub_resource(s, verb, lo)
                                           EXCEPT !.mode = "Normal"]
                            /\ r.app.resource_key = verb
                            /\ IsSome(r.app.parent_context)
                            /\ Unwrap(r.app.parent_context).item = Unwrap(selected_item(app))
                            /\ r.app.navigation_stack = app.navigation_stack \o app.parent_context
                       ELSE /\ r.app = [navigate_to_resource(s, verb, lo)
                                           EXCEPT !.mode = "Normal"]
                            /\ r.app.resource_key = verb
                            /\ IsNone(r.app.parent_context)
                            /\ r.app.navigation_stack = <<>>
                 /\ (/\ verb \notin ResourceKeys
                     /\ verb \notin {"q", "quit", "back", "projects", "zones", "zone", "project"})
                       => /\ ~r.quit
                          /\ IsSome(r.app.error)
                          /\ Unwrap(r.app.error) = Msg("Unknown command", "", words[1])
                          /\ r.app.resource_key = app.resource_key
                          /\ r.app.items = app.items
                          /\ r.app.filtered_items = app.filtered_items

\* The command disks was run on vm-instances with an item selected: the
\* program has drilled down into the disks of that item.
C25_Witness ==
    /\ last = "command Enter"
    /\ app.resource_key = "disks"
    /\ IsSome(app.parent_context)
    /\ Unwrap(app.parent_context).resource_key = "vm-instances"
    /\ app.mode = "Normal"
    /\ app.requests = <<ListRequest("disks", Some(Unwrap(app.parent_context).item))>>

(***************************************************************************)
(* C26 as stated: whenever the command line is open, filtering the         *)
(* suggestions again for the buffer as it is, with a character added or    *)
(* with the last one erased leaves as suggestions exactly the available    *)
(* commands (catalog keys, projects, zones) that contain the buffer, in    *)
(* ascending order and all of them when the buffer is empty, the selected  *)
(* index inside the list (0 when it is empty) and the preview equal to the *)
(* suggestion at that index (none when the list is empty).                 *)
(***************************************************************************)
C26_SuggestionsContainTypedText ==
    InMode("Command") =>
        LET typed == app.command_text
            \* the buffer as it is, after Backspace and after each character
            \* the user goes on to type
            edits == {typed, SubSeq(typed, 1, Len(typed) - 1)}
                         \cup {text \in {Append(typed, c) : c \in CommandChars} :
                                   Typable(text)}
            all == ResourceKeys \cup {"projects", "zones"}
        IN \A text \in edits :
               LET r == update_command_suggestions([Begin(app) EXCEPT !.command_text = text])
                   list == r.command_suggestions
                   index == r.command_suggestion_selected
               IN /\ Range(list) = {c \in all : text = <<>> \/ Contains(Chars[c], text)}
                  /\ \A i \in 1..Len(list), j \in 1..Len(list) :
                         i < j => TextLess(Chars[list[i]], Chars[list[j]])
                  /\ IF list = <<>> THEN index = 0 ELSE index < Len(list)
                  /\ r.command_preview = IF list = <<>> THEN None ELSE Some(list[index + 1])

(***************************************************************************)
(* C26, amended: the same, the suggestions being the available commands    *)
(* that contain the buffer in lower case.                                  *)
(***************************************************************************)
C26_SuggestionsContainLowercasedText ==
    InMode("Command") =>
        LET typed == app.command_text
            \* the buffer as it is, after Backspace and after each character
            \* the user goes on to type
            edits == {typed, SubSeq(typed, 1, Len(typed) - 1)}
                         \cup {text \in {Append(typed, c) : c \in CommandChars} :
                                   Typable(text)}
            all == ResourceKeys \cup {"projects", "zones"}
        IN \A text \in edits :
               LET r == update_command_suggestions([Begin(app) EXCEPT !.command_text = text])
                   list == r.command_suggestions
                   index == r.command_suggestion_selected
               IN /\ Range(list) = {c \in all : text = <<>> \/ Contains(Chars[c], ToLowercase(text))}
                  /\ \A i \in 1..Len(list), j \in 1..Len(list) :
                         i < j => TextLess(Chars[list[i]], Chars[list[j]])
                  /\ IF list = <<>> THEN index = 0 ELSE index < Len(list)
                  /\ r.command_preview = IF list = <<>> THEN None ELSE Some(list[index + 1])

\* The upper-case S was typed: the suggestions are the commands with an s.
C26_Witness ==
    /\ last = "command edit"
    /\ app.mode = "Command"
    /\ app.command_text = <<"S">>
    /\ app.command_suggestions =
           <<"bq-datasets", "disks", "projects", "snapshots", "vm-instances", "zones">>
    /\ app.command_suggestion_selected = 0
    /\ app.command_preview = Some("bq-datasets")

RECURSIVE NextSuggestionTimes(_, _)
\* next_suggestion called k times in a row.
NextSuggestionTimes(s, k) ==
    IF k = 0 THEN s ELSE NextSuggestionTimes(next_suggestion(s), k - 1)

(***************************************************************************)
(* C27: whenever the command line is open with n suggestions, n > 0,       *)
(* next_suggestion moves the index to the following one modulo n (from     *)
(* n-1 to 0), prev_suggestion to the preceding one modulo n (from 0 to     *)
(* n-1), either one undoes the other, n calls of next_suggestion bring the *)
(* index back, and the preview is the suggestion at the new index; with no *)
(* suggestions both leave the state as it is.                              *)
(***************************************************************************)
C27_SuggestionCyclingWraps ==
    InMode("Command") =>
        LET s == Begin(app)
            n == Len(s.command_suggestions)
            i == s.command_suggestion_selected
            nx == next_suggestion(s)
            pv == prev_suggestion(s)
        IN IF n = 0 THEN nx = s /\ pv = s
           ELSE /\ i < n
                /\ nx.command_suggestion_selected = (i + 1) % n
                /\ pv.command_suggestion_selected = (i + n - 1) % n
                /\ i = n - 1 => nx.command_suggestion_selected = 0
                /\ i = 0 => pv.command_suggestion_selected = n - 1
                /\ prev_suggestion(nx).command_suggestion_selected = i
                /\ next_suggestion(pv).command_suggestion_selected = i
                /\ NextSuggestionTimes(s, n).command_suggestion_selected = i
                /\ nx.command_preview = Some(s.command_suggestions[((i + 1) % n) + 1])
                /\ pv.command_preview = Some(s.command_suggestions[((i + n - 1) % n) + 1])
                /\ nx.command_suggestions = s.command_suggestions
                /\ pv.command_suggestions = s.command_suggestions
                /\ nx.command_text = s.command_text

\* Down was pressed on the last of several suggestions: the first is selected
\* and previewed.
C27_Witness ==
    /\ last = "command Down on the last suggestion"
    /\ Len(app.command_suggestions) > 1
    /\ app.command_suggestion_selected = 0
    /\ app.command_preview = Some(app.command_suggestions[1])

(***************************************************************************)
(* C28: from every state with a pending action answered yes, for an action *)
(* the current resource declares and with an item selected, when the       *)
(* action request fails execute_pending_action leaves items,               *)
(* filtered_items and selected as they were, makes the action request and  *)
(* no list request, records the error "Action '<display name>' failed:     *)
(* <cause>" and ends with loading false.                                   *)
(***************************************************************************)
C28_FailedActionKeepsLists ==
    \A ao \in ActionOutcomes, lo \in ListOutcomes :
        (/\ ~ao.ok
         /\ IsSome(app.pending_action)
         /\ Unwrap(app.pending_action).selected_yes
         /\ IsSome(ParseIndex(Unwrap(app.pending_action).action_key))
         /\ IsSome(current_resource(app))
         /\ IsSome(selected_item(app))
         /\ IsSome(Get(Unwrap(current_resource(app)).actions,
                       Unwrap(ParseIndex(Unwrap(app.pending_action).action_key))))) =>
            LET index == Unwrap(ParseIndex(Unwrap(app.pending_action).action_key))
                action == At(Unwrap(current_resource(app)).actions, index)
                r == execute_pending_action(Begin(app), ao, lo)
            IN /\ r.items = app.items
               /\ r.filtered_items = app.filtered_items
               /\ r.selected = app.selected
               /\ r.requests = <<ActionRequest(app.resource_key, index,
                                               Unwrap(selected_item(app)))>>
               /\ r.error = Some(Msg("Action failed", action.display_name, ao.err))
               /\ ~r.loading

\* The Delete of the second of two items was confirmed and failed upstream.
C28_Witness ==
    /\ last = "execute_pending_action"
    /\ IsSome(app.error)
    /\ Unwrap(app.error) = Msg("Action failed", "Delete", UpstreamError)
    /\ Len(app.filtered_items) = 2
    /\ app.selected = 1
    /\ Len(app.requests) = 1
    /\ app.requests[1].kind = "action"
    /\ ~app.loading

(***************************************************************************)
(* C29: from every state with a pending action answered yes, for an action *)
(* the current resource declares and with an item selected,                *)
(* execute_pending_action makes the action request first, in mode Normal   *)
(* and with loading true; when the request succeeds exactly one list       *)
(* request follows it in the same operation and nothing else, and when it  *)
(* fails no list request is made.                                          *)
(***************************************************************************)
C29_ModeAndLoadingSetBeforeRequest ==
    \A ao \in ActionOutcomes, lo \in ListOutcomes :
        (/\ IsSome(app.pending_action)
         /\ Unwrap(app.pending_action).selected_yes
         /\ IsSome(ParseIndex(Unwrap(app.pending_action).action_key))
         /\ IsSome(current_resource(app))
         /\ IsSome(selected_item(app))
         /\ IsSome(Get(Unwrap(current_resource(app)).actions,
                       Unwrap(ParseIndex(Unwrap(app.pending_action).action_key))))) =>
            LET r == execute_pending_action(Begin(app), ao, lo)
            IN /\ Len(r.requests) >= 1
               /\ r.requests[1].kind = "action"
               /\ r.action_seen = Some([mode |-> "Normal", loading |-> TRUE])
               /\ ao.ok => /\ Len(r.requests) = 2
                           /\ r.requests[2].kind = "list"
               /\ ~ao.ok => Len(r.requests) = 1

\* The dialog was open on yes: the Delete request went out in mode Normal with
\* loading set, succeeded, and one list request followed it.
C29_Witness ==
    /\ last = "execute_pending_action from the dialog on yes"
    /\ app.action_seen = Some([mode |-> "Normal", loading |-> TRUE])
    /\ Len(app.requests) = 2
    /\ app.requests[1].kind = "action"
    /\ app.requests[1].index = 1
    /\ app.requests[2].kind = "list"
    /\ ~app.loading

(***************************************************************************)
(* C30: for an action the current resource declares without a              *)
(* confirmation, with an item selected and read-only off, trigger_action   *)
(* creates a pending action with "yes" selected, makes no request and      *)
(* leaves the mode as it was, in every state; and where the Normal-mode    *)
(* key handler runs, the shortcut branch (trigger_action, then             *)
(* execute_pending_action since the mode is not Confirm) makes the action  *)
(* request for the selected item first, in mode Normal, and ends with no   *)
(* pending action and not in Confirm mode.  After a shortcut key no        *)
(* pending action remains unless the dialog is open.                       *)
(***************************************************************************)
C30_UnconfirmedActionRunsAtOnce ==
    /\ (last \in {"action shortcut", "ctrl+d"} /\ app.mode # "Confirm")
           => IsNone(app.pending_action)
    /\ (~app.readonly /\ IsSome(current_resource(app)) /\ IsSome(selected_item(app))) =>
          \A action_index \in 0..(Len(Unwrap(current_resource(app)).actions) - 1) :
              IsNone(At(Unwrap(current_resource(app)).actions, action_index).confirm) =>
                  LET s == Begin(app)
                      t == trigger_action(s, action_index)
                  IN /\ IsSome(t.pending_action)
                     /\ Unwrap(t.pending_action).selected_yes
                     /\ t.mode = app.mode
                     /\ t.requests = <<>>
                     /\ InMode("Normal") =>
                            \A ao \in ActionOutcomes, lo \in ListOutcomes :
                                LET r == TriggerByShortcut(s, action_index, ao, lo)
                                IN /\ t.mode # "Confirm"
                                   /\ IsNone(r.pending_action)
                                   /\ r.mode # "Confirm"
                                   /\ Len(r.requests) >= 1
                                   /\ r.requests[1] =
                                          ActionRequest(app.resource_key, action_index,
                                                        Unwrap(selected_item(app)))
                                   /\ r.action_seen =
                                          Some([mode |-> "Normal", loading |-> TRUE])

\* The key "s" has started the selected instance: the Start request went out
\* in mode Normal, no dialog was opened and no pending action is left.
C30_Witness ==
    /\ last = "action shortcut"
    /\ Len(app.requests) >= 1
    /\ app.requests[1].kind = "action"
    /\ app.requests[1].resource = "vm-instances"
    /\ app.requests[1].index = 0
    /\ app.action_seen = Some([mode |-> "Normal", loading |-> TRUE])
    /\ IsNone(app.pending_action)
    /\ app.mode # "Confirm"

(***************************************************************************)
(* The dispatch layer: src/gcp/dispatch.rs.                                *)
(*                                                                         *)
(* A response is a serde_json::Value.  A JSON string is [str |-> text], an *)
(* array [arr |-> elements], null [null |-> TRUE] and an object            *)
(* [obj |-> entries], the entries being the pairs [key, value] of the map  *)
(* in the order in which the map iterates over them (which order that is   *)
(* depends on how serde_json is built; every order is an input).  Field    *)
(* names and paths are character sequences.                                *)
(***************************************************************************)
ValueString(text) == [str |-> text]
ValueArray(elements) == [arr |-> elements]
ValueObject(entries) == [obj |-> entries]
ValueNull == [null |-> TRUE]
Entry(key, value) == [key |-> key, value |-> value]

\* Value::is_array, Value::is_object
is_array(v) == DOMAIN v = {"arr"}
is_object(v) == DOMAIN v = {"obj"}

\* Value::get with a string index: the value under the key, of an object only.
value_get(v, key) ==
    IF is_object(v) /\ \E i \in 1..Len(v.obj) : v.obj[i].key = key
    THEN Some(v.obj[CHOOSE i \in 1..Len(v.obj) : v.obj[i].key = key].value)
    ELSE None

RECURSIVE Split(_, _)
\* str::split on a separator: the pieces between its occurrences, found from
\* the left and not overlapping.
Split(text, sep) ==
    LET n == Len(sep)
        hits == {i \in 1..(Len(text) - n + 1) : SubSeq(text, i, i + n - 1) = sep}
    IN IF hits = {} THEN <<text>>
       ELSE LET i == CHOOSE h \in hits : \A j \in hits : h <= j
            IN <<SubSeq(text, 1, i - 1)>> \o Split(SubSeq(text, i + n, Len(text)), sep)

Wildcard == <<".", "*">>
WildcardSegment == <<".", "*", ".">>

RECURSIVE pointer(_, _)
\* Value::pointer along the tokens of "/a/b/...": objects are entered by key.
\* (An array is entered by a numeric token; no token of the model is one.)
pointer(v, tokens) ==
    IF tokens = <<>> THEN Some(v)
    ELSE LET inner == value_get(v, Head(tokens))
         IN IF IsNone(inner) THEN None ELSE pointer(Unwrap(inner), Tail(tokens))

RECURSIVE CollectArrays_stops_at_gap(_, _, _, _)
\* A faulty loop: it stops at the first value that has no array.
CollectArrays_stops_at_gap(entries, array_field, all_items, i) ==
    IF i > Len(entries) THEN all_items
    ELSE LET items == value_get(entries[i].value, array_field)
         IN IF IsSome(items) /\ is_array(Unwrap(items))
            THEN CollectArrays_stops_at_gap(entries, array_field,
                                            all_items \o Unwrap(items).arr, i + 1)
            ELSE all_items

RECURSIVE CollectArrays(_, _, _, _)
\* The loop of extract_aggregated_items over the map, from its entry i on.
CollectArrays(entries, array_field, all_items, i) ==
    IF i > Len(entries) THEN all_items
    ELSE LET items == value_get(entries[i].value, array_field)
         IN CollectArrays(entries, array_field,
                          IF IsSome(items) /\ is_array(Unwrap(items))
                          THEN all_items \o Unwrap(items).arr
                          ELSE all_items,
                          i + 1)

\* dispatch::extract_aggregated_items
extract_aggregated_items(response, path) ==
    LET parts == Split(path, WildcardSegment)
    IN IF Len(parts) # 2 THEN <<>>
       ELSE LET map == value_get(response, parts[1])
            IN IF IsNone(map) \/ ~is_object(Unwrap(map)) THEN <<>>
               ELSE CollectArrays(Unwrap(map).obj, parts[2], <<>>, 1)

\* dispatch::list_resources for a resource with this response_path, answer
\* being what client.request returns for the URL (see interpolate_url).
list_resources(response_path, answer) ==
    IF ~answer.ok THEN [ok |-> FALSE, items |-> <<>>]
    ELSE LET response == answer.response
             at == pointer(response, Split(response_path, <<".">>))
         IN [ok |-> TRUE,
             items |->
                 IF response_path = <<>>
                 THEN IF is_array(response) THEN response.arr ELSE <<response>>
                 ELSE IF Contains(response_path, Wildcard)
                 THEN extract_aggregated_items(response, response_path)
                 ELSE IF IsSome(at) /\ is_array(Unwrap(at)) THEN Unwrap(at).arr
                 ELSE <<>>]

(***************************************************************************)
(* list_resources on its own: the responses and the response paths it is   *)
(* given.                                                                  *)
(***************************************************************************)
\* A mapping of a response has at most this many keys.
MaxRegions == 2

ItemsField == <<"i","t","e","m","s">>
SubnetworksField == <<"s","u","b","n","e","t","w","o","r","k","s">>
OtherField == <<"i","d">>
FieldNames == {ItemsField, SubnetworksField, OtherField}

RegionPool == << <<"u","s","-","c","e","n","t","r","a","l","1">>,
                 <<"e","u","r","o","p","e","-","w","e","s","t","1">>,
                 <<"a","s","i","a","-","e","a","s","t","1">> >>
RegionKeys == {RegionPool[i] : i \in 1..Min(MaxRegions, Len(RegionPool))}

ElementA == ValueString(<<"A">>)
ElementB == ValueString(<<"B">>)
ElementC == ValueString(<<"C">>)

\* What a region of an aggregated response holds.
RegionValues ==
    {ValueObject(<<Entry(SubnetworksField, ValueArray(a))>>) :
         a \in {<<>>, <<ElementA>>, <<ElementC>>, <<ElementA, ElementB>>,
                <<ElementB, ElementA>>}}
      \cup {ValueObject(<<Entry(SubnetworksField, ElementA)>>),
            ValueObject(<<Entry(OtherField, ValueArray(<<ElementA>>))>>),
            ValueArray(<<ElementA>>)}

\* The mappings: up to MaxRegions entries with different keys, in any order.
Mappings ==
    {m \in SeqsUpTo({Entry(k, v) : k \in RegionKeys, v \in RegionValues}, MaxRegions) :
        \A i \in 1..Len(m), j \in 1..Len(m) : i # j => m[i].key # m[j].key}

Responses ==
    {ValueObject(<<Entry(ItemsField, ValueObject(m))>>) : m \in Mappings}
      \cup {ValueObject(<<Entry(ItemsField, ValueArray(<<ElementA, ElementB>>))>>),
            ValueObject(<<Entry(ItemsField, ElementA)>>),
            ValueObject(<<>>),
            ValueArray(<<ElementA, ElementB>>),
            ValueNull}

Answers == {[ok |-> TRUE, response |-> r] : r \in Responses}
               \cup {[ok |-> FALSE, response |-> ValueNull]}

ResponsePaths ==
    { <<>>,
      ItemsField,
      ItemsField \o <<".">> \o SubnetworksField,
      ItemsField \o Wildcard,
      ItemsField \o WildcardSegment \o SubnetworksField,
      ItemsField \o WildcardSegment \o OtherField,
      SubnetworksField \o WildcardSegment \o SubnetworksField,
      ItemsField \o WildcardSegment \o SubnetworksField \o WildcardSegment \o OtherField }

InitList ==
    /\ \E response_path \in ResponsePaths, answer \in Answers :
           dispatch = [fn |-> "list_resources", response_path |-> response_path,
                       answer |-> answer, result |-> None]
    /\ app = AppNew("p1", <<"p1", "p2">>, FALSE)
    /\ pc = "engine"
    /\ last = "new"
    /\ RESOURCE_FILES = EmbeddedFiles
    /\ REGISTRY = None

CallListResources ==
    /\ IsNone(dispatch.result)
    /\ dispatch' = [dispatch EXCEPT
                       !.result = Some(list_resources(dispatch.response_path, dispatch.answer))]
    /\ last' = "list_resources"
    /\ UNCHANGED <<app, pc, RESOURCE_FILES, REGISTRY>>

NextList == CallListResources

SpecList == InitList /\ [][NextList]_vars

\* The total length of the first n sequences of seqs.
RECURSIVE SumLen(_, _)
SumLen(seqs, n) == IF n = 0 THEN 0 ELSE SumLen(seqs, n - 1) + Len(seqs[n])

\* The example: two regions, one with the subnetworks A and B, one with C.
ExampleMappings ==
    {m \in Mappings :
        /\ Len(m) = 2
        /\ \E i \in 1..2 :
               /\ m[i] = Entry(RegionPool[1], ValueObject(<<Entry(SubnetworksField,
                                                  ValueArray(<<ElementA, ElementB>>))>>))
               /\ m[3 - i] = Entry(RegionPool[2], ValueObject(<<Entry(SubnetworksField,
                                                  ValueArray(<<ElementC>>))>>))}

(***************************************************************************)
(* C31: for a response path M.*.F over the field names, list_resources     *)
(* returns, for a successful request, the arrays found at F in the values  *)
(* of the mapping at the top-level field M, one after the other in the     *)
(* order in which the mapping is iterated: each array is a segment of the  *)
(* result with its elements in order and the result is nothing but these   *)
(* segments, a value with no array at F contributing the empty segment;    *)
(* the result is empty when M is missing or not a mapping and when the     *)
(* path has two wildcards; for the example the result has 3 elements,      *)
(* which are A, B and C.                                                   *)
(***************************************************************************)
C31_AggregatedListConcatenates ==
    dispatch.answer.ok =>
        LET path == dispatch.response_path
            response == dispatch.answer.response
            items == list_resources(path, dispatch.answer).items
        IN /\ IsSome(dispatch.result) => Unwrap(dispatch.result).items = items
           /\ \A M \in FieldNames, F \in FieldNames :
                  path = M \o WildcardSegment \o F =>
                      LET map == value_get(response, M)
                      IN IF IsNone(map) \/ ~is_object(Unwrap(map)) THEN items = <<>>
                         ELSE LET entries == Unwrap(map).obj
                                  found(i) == value_get(entries[i].value, F)
                                  arrays == [i \in 1..Len(entries) |->
                                                IF IsSome(found(i)) /\ is_array(Unwrap(found(i)))
                                                THEN Unwrap(found(i)).arr ELSE <<>>]
                              IN /\ Len(items) = SumLen(arrays, Len(entries))
                                 /\ \A i \in 1..Len(entries) :
                                        SubSeq(items, SumLen(arrays, i - 1) + 1,
                                               SumLen(arrays, i)) = arrays[i]
           /\ Len(Split(path, WildcardSegment)) > 2 => items = <<>>
           /\ (/\ path = ItemsField \o WildcardSegment \o SubnetworksField
               /\ \E m \in ExampleMappings :
                      response = ValueObject(<<Entry(ItemsField, ValueObject(m))>>)) =>
                  /\ Len(items) = 3
                  /\ Range(items) = {ElementA, ElementB, ElementC}

\* list_resources has returned for the example with europe-west1 iterated
\* first: C, A, B.
C31_Witness ==
    /\ IsSome(dispatch.result)
    /\ dispatch.response_path = ItemsField \o WildcardSegment \o SubnetworksField
    /\ dispatch.answer.ok
    /\ \E m \in ExampleMappings :
           /\ m[1].key = RegionPool[2]
           /\ dispatch.answer.response = ValueObject(<<Entry(ItemsField, ValueObject(m))>>)
    /\ Unwrap(dispatch.result).items = <<ElementC, ElementA, ElementB>>

(***************************************************************************)
(* execute_action and interpolate_url: the URL of an action request.       *)
(* Texts are character sequences.  The extra placeholders are a HashMap,   *)
(* modelled as a function from keys to values together with the order in   *)
(* which the map is iterated (any order: it changes from run to run).      *)
(***************************************************************************)
RECURSIVE Join(_, _)
\* The pieces with sep between them.
Join(pieces, sep) ==
    IF Len(pieces) = 1 THEN pieces[1]
    ELSE pieces[1] \o sep \o Join(Tail(pieces), sep)

\* str::replace: every occurrence of from, found from the left and not
\* overlapping, becomes to.
Replace(text, from, to) == Join(Split(text, from), to)

RECURSIVE trim_end_matches(_, _)
trim_end_matches(text, c) ==
    IF text # <<>> /\ text[Len(text)] = c
    THEN trim_end_matches(SubSeq(text, 1, Len(text) - 1), c)
    ELSE text

RECURSIVE trim_start_matches(_, _)
trim_start_matches(text, c) ==
    IF text # <<>> /\ text[1] = c THEN trim_start_matches(Tail(text), c) ELSE text

\* format!("{{{}}}", key)
Token(key) == <<"{">> \o key \o <<"}">>

ProjectKey == <<"p","r","o","j","e","c","t">>
ZoneKey == <<"z","o","n","e">>
RegionKey == <<"r","e","g","i","o","n">>
NameKey == <<"n","a","m","e">>
IdKey == <<"i","d">>

\* dispatch::derive_region_from_zone: the zone up to its last hyphen.
derive_region_from_zone(zone) ==
    LET hyphens == {i \in 1..Len(zone) : zone[i] = "-"}
    IN IF hyphens = {} THEN zone
       ELSE SubSeq(zone, 1, (CHOOSE i \in hyphens : \A j \in hyphens : j <= i) - 1)

RECURSIVE ApplyExtra(_, _, _)
\* The loop of interpolate_url over the extra map, in the map's order.
ApplyExtra(result, extra, order) ==
    IF order = <<>> THEN result
    ELSE ApplyExtra(Replace(result, Token(Head(order)), extra[Head(order)]),
                    extra, Tail(order))

\* A faulty interpolate_url: the extra placeholders are applied first.
interpolate_url_extras_first(base, path, client, extra, order) ==
    LET full_path == trim_end_matches(base, "/") \o <<"/">> \o trim_start_matches(path, "/")
        result == IF IsSome(extra) THEN ApplyExtra(full_path, Unwrap(extra), order)
                  ELSE full_path
    IN Replace(Replace(Replace(result, Token(ProjectKey), client.project),
                       Token(ZoneKey), client.zone),
               Token(RegionKey), derive_region_from_zone(client.zone))

\* dispatch::interpolate_url, order being the order in which extra is iterated.
interpolate_url(base, path, client, extra, order) ==
    LET full_path == trim_end_matches(base, "/") \o <<"/">> \o trim_start_matches(path, "/")
        result == Replace(Replace(Replace(full_path, Token(ProjectKey), client.project),
                                  Token(ZoneKey), client.zone),
                          Token(RegionKey), derive_region_from_zone(client.zone))
    IN IF IsSome(extra) THEN ApplyExtra(result, Unwrap(extra), order) ELSE result

\* item.get(field).and_then(|v| v.as_str())
get_str(item, field) ==
    LET v == value_get(item, field)
    IN IF IsSome(v) /\ DOMAIN Unwrap(v) = {"str"} THEN Some(Unwrap(v).str) ELSE None

\* The extra placeholders execute_action builds from the item.
ActionExtra(name_field, id_field, item) ==
    LET name == get_str(item, name_field)
        id == get_str(item, id_field)
        zone_url == get_str(item, ZoneKey)
        region_url == get_str(item, RegionKey)
        keys == (IF IsSome(name) THEN {NameKey} ELSE {})
                  \cup (IF IsSome(id) THEN {IdKey} ELSE {})
                  \cup (IF IsSome(zone_url) THEN {ZoneKey} ELSE {})
                  \cup (IF IsSome(region_url) THEN {RegionKey} ELSE {})
    IN [k \in keys |->
           CASE k = ZoneKey -> LastSegment(Unwrap(zone_url))
             [] k = RegionKey -> LastSegment(Unwrap(region_url))
             [] k = IdKey -> Unwrap(id)
             [] OTHER -> Unwrap(name)]

\* The orders in which a map with these keys can be iterated.
Orders(keys) ==
    {order \in [1..Cardinality(keys) -> keys] :
        \A i \in 1..Cardinality(keys), j \in 1..Cardinality(keys) :
            i # j => order[i] # order[j]}

\* dispatch::execute_action up to the request: the URL it asks for, for an
\* action the resource declares.
ActionUrl(resource, action_path, client, item, order) ==
    interpolate_url(resource.base, action_path, client,
                    Some(ActionExtra(resource.name_field, resource.id_field, item)), order)

(***************************************************************************)
(* execute_action on its own: the templates, client contexts and items it  *)
(* is given.  A template is a sequence of pieces, literal text or a token. *)
(***************************************************************************)
Literal(text) == [token |-> FALSE, text |-> text]
Placeholder(key) == [token |-> TRUE, text |-> key]

RECURSIVE TemplateText(_)
\* The path a template stands for.
TemplateText(pieces) ==
    IF pieces = <<>> THEN <<>>
    ELSE (IF Head(pieces).token THEN Token(Head(pieces).text) ELSE Head(pieces).text)
             \o TemplateText(Tail(pieces))

ActionTemplates ==
    { << Literal(<<"/">>), Placeholder(ProjectKey), Literal(<<"/">>), Placeholder(ZoneKey),
         Literal(<<"/">>), Placeholder(NameKey), Literal(<<"/","g","o">>) >>,
      << Placeholder(ProjectKey), Literal(<<"/">>), Placeholder(RegionKey),
         Literal(<<"/">>), Placeholder(IdKey) >>,
      << Placeholder(ZoneKey), Literal(<<"/">>), Placeholder(NameKey), Literal(<<"/">>),
         Placeholder(ZoneKey), Literal(<<"/">>), Placeholder(RegionKey) >> }

ActionResources ==
    {[base |-> base, name_field |-> NameKey, id_field |-> IdKey] :
         base \in {<<"h">>, <<"h", "/">>}}

\* The client context: the project and the zone, set at start-up or by the
\* project and zone commands, which take any word.
ClientContexts ==
    {[project |-> project, zone |-> zone] :
         project \in {<<"p","1">>, Token(ZoneKey)},
         zone \in {<<"u","s","-","a">>, <<"z">>, Token(ZoneKey),
                   Token(RegionKey) \o <<"-","a">>}}

\* The items: each field absent, a string or (id) not a string.
ActionItems ==
    {ValueObject(name \o id \o zone \o region) :
         name \in {<<>>, <<Entry(NameKey, ValueString(<<"v","m">>))>>,
                   <<Entry(NameKey, ValueString(Token(ZoneKey)))>>},
         id \in {<<>>, <<Entry(IdKey, ValueString(<<"7">>))>>, <<Entry(IdKey, ValueNull)>>},
         zone \in {<<>>, <<Entry(ZoneKey, ValueString(<<"z","/","e","u","-","b">>))>>},
         region \in {<<>>, <<Entry(RegionKey, ValueString(<<"r","/","e","u">>))>>}}

InitAction ==
    /\ \E resource \in ActionResources, template \in ActionTemplates,
          client \in ClientContexts, item \in ActionItems :
         \E order \in Orders(DOMAIN ActionExtra(resource.name_field, resource.id_field, item)) :
           dispatch = [fn |-> "execute_action", resource |-> resource,
                       template |-> template, client |-> client, item |-> item,
                       order |-> order, result |-> None]
    /\ app = AppNew("p1", <<"p1", "p2">>, FALSE)
    /\ pc = "engine"
    /\ last = "new"
    /\ RESOURCE_FILES = EmbeddedFiles
    /\ REGISTRY = None

CallExecuteAction ==
    /\ IsNone(dispatch.result)
    /\ dispatch' = [dispatch EXCEPT
                       !.result = Some(ActionUrl(dispatch.resource,
                                                 TemplateText(dispatch.template),
                                                 dispatch.client, dispatch.item,
                                                 dispatch.order))]
    /\ last' = "execute_action"
    /\ UNCHANGED <<app, pc, RESOURCE_FILES, REGISTRY>>

NextAction == CallExecuteAction

SpecAction == InitAction /\ [][NextAction]_vars

\* The item without its own zone and region fields.
WithoutZoneAndRegion(item) ==
    ValueObject(SelectSeq(item.obj, LAMBDA e : e.key \notin {ZoneKey, RegionKey}))

\* The text has a brace in it.
HasBrace(text) == \E i \in 1..Len(text) : text[i] \in {"{", "}"}

\* No value that is put into the URL has a brace in it: the project, the zone
\* and the item's name and id.
BracelessValues ==
    /\ ~HasBrace(dispatch.client.project)
    /\ ~HasBrace(dispatch.client.zone)
    /\ \A field \in {NameKey, IdKey} :
           IsSome(get_str(dispatch.item, field)) => ~HasBrace(Unwrap(get_str(dispatch.item, field)))

\* The URL with every token of the template replaced at once: project, zone
\* and region by the client's values, name and id by the item's when it has
\* them as strings.
ExpectedUrl ==
    LET client == dispatch.client
        item == dispatch.item
        value(key) ==
            CASE key = ProjectKey -> client.project
              [] key = ZoneKey -> client.zone
              [] key = RegionKey -> derive_region_from_zone(client.zone)
              [] OTHER -> IF IsSome(get_str(item, key)) THEN Unwrap(get_str(item, key))
                          ELSE Token(key)
        pieces == [i \in 1..Len(dispatch.template) |->
                      IF dispatch.template[i].token THEN value(dispatch.template[i].text)
                      ELSE dispatch.template[i].text]
        first == IF Len(pieces) > 0 /\ ~dispatch.template[1].token
                 THEN [pieces EXCEPT ![1] = trim_start_matches(@, "/")]
                 ELSE pieces
    IN trim_end_matches(dispatch.resource.base, "/") \o <<"/">>
           \o (IF Len(first) = 0 THEN <<>> ELSE Join(first, <<>>))

\* The URL asked for with the item as it is, and with the item stripped of
\* its zone and region fields (the map then has no such keys to iterate).
UrlOfItem == ActionUrl(dispatch.resource, TemplateText(dispatch.template),
                       dispatch.client, dispatch.item, dispatch.order)
UrlOfStrippedItem ==
    ActionUrl(dispatch.resource, TemplateText(dispatch.template), dispatch.client,
              WithoutZoneAndRegion(dispatch.item),
              SelectSeq(dispatch.order, LAMBDA k : k \notin {ZoneKey, RegionKey}))

(***************************************************************************)
(* C32, as stated: whatever the client context and the item, the URL of    *)
(* the action request is the one the item without its zone and region      *)
(* fields gives.                                                           *)
(***************************************************************************)
C32_ItemZoneNeverChangesUrl == UrlOfItem = UrlOfStrippedItem

(***************************************************************************)
(* C32, amended: when neither the client's project and zone nor the item's *)
(* name and id have a brace in them, the URL of the action request is the  *)
(* template with {project}, {zone} and {region} replaced by the client's   *)
(* project, zone and region (the zone up to its last hyphen) and {name}    *)
(* and {id} by the item's, whatever the order of the extra map; the item's *)
(* zone and region fields do not change it.                                *)
(***************************************************************************)
C32_ClientValuesReplaceBuiltInTokens ==
    BracelessValues =>
        /\ UrlOfItem = UrlOfStrippedItem
        /\ UrlOfItem = ExpectedUrl
        /\ IsSome(dispatch.result) => Unwrap(dispatch.result) = ExpectedUrl

\* The start URL of the instance vm has been built in the zone us-a for an
\* item that names its own zone eu-b.
C32_Witness ==
    /\ IsSome(dispatch.result)
    /\ BracelessValues
    /\ get_str(dispatch.item, ZoneKey) = Some(<<"z","/","e","u","-","b">>)
    /\ ZoneKey \in Range(dispatch.order)
    /\ dispatch.client.zone = <<"u","s","-","a">>
    /\ Unwrap(dispatch.result) = <<"h","/","p","1","/","u","s","-","a","/","v","m","/","g","o">>

(***************************************************************************)
(* C33: whenever the program waits for the next key, the filtered list is  *)
(* the item list filtered by the current filter text: it is what           *)
(* apply_filter computes from the items and the text, and it is the item   *)
(* list itself when the text is empty.                                     *)
(***************************************************************************)
C33_FilteredListFollowsFilter ==
    pc = "loop" =>
        /\ app.filtered_items = apply_filter(app).filtered_items
        /\ app.filter_text = <<>> => app.filtered_items = app.items

(***************************************************************************)
(* C34: the confirmation dialog opens on the selected item: the pending    *)
(* action carries that item's id and its message that item's name and id.  *)
(* While the mode is Confirm no step of the program (a key or the          *)
(* auto-refresh check) changes the resource key, the item list, the        *)
(* filtered list or the selection; and an action request made by a step    *)
(* taken in Confirm mode is for the resource, the action index of the      *)
(* pending action and the item that were current when the step began.      *)
(***************************************************************************)
C34_ConfirmFreezesTarget ==
    [][/\ (app.mode # "Confirm" /\ app'.mode = "Confirm") =>
             /\ IsSome(app'.pending_action)
             /\ IsSome(selected_item(app'))
             /\ IsSome(current_resource(app'))
             /\ LET pending == Unwrap(app'.pending_action)
                    item == Unwrap(selected_item(app'))
                    resource == Unwrap(current_resource(app'))
                IN /\ pending.resource_id = extract_json_value(item, resource.id_field)
                   /\ pending.message.id = extract_json_value(item, resource.id_field)
                   /\ pending.message.name = extract_json_value(item, resource.name_field)
                   /\ selected_item(app) = Some(item)
                   /\ app.resource_key = app'.resource_key
       /\ (app.mode = "Confirm" /\ app'.mode = "Confirm") =>
             /\ app'.resource_key = app.resource_key
             /\ app'.items = app.items
             /\ app'.filtered_items = app.filtered_items
             /\ app'.selected = app.selected
             /\ IsSome(app'.pending_action)
             /\ Unwrap(app'.pending_action).action_key = Unwrap(app.pending_action).action_key
             /\ Unwrap(app'.pending_action).resource_id = Unwrap(app.pending_action).resource_id
             /\ Unwrap(app'.pending_action).message = Unwrap(app.pending_action).message
       /\ app.mode = "Confirm" =>
             \A i \in 1..Len(app'.requests) :
                 app'.requests[i].kind = "action" =>
                     /\ IsSome(app.pending_action)
                     /\ app'.requests[i] =
                            ActionRequest(app.resource_key,
                                          Unwrap(ParseIndex(Unwrap(app.pending_action).action_key)),
                                          Unwrap(selected_item(app)))
      ]_vars

\* The Delete of the second of two items has been confirmed with 'y': the
\* request names that item.
C34_Witness ==
    /\ last = "confirm y"
    /\ Len(app.requests) >= 1
    /\ app.requests[1] = ActionRequest("vm-instances", 1, ItemPool[2])

(***************************************************************************)
(* C35: whenever the program waits for the next key, a pending action      *)
(* exists exactly when the mode is Confirm; and from the dialog, cancel    *)
(* (exit_mode) and Enter or 'y' (execute_pending_action, whichever answer  *)
(* is selected and whatever the requests return) end outside Confirm mode  *)
(* with no pending action.                                                 *)
(***************************************************************************)
C35_PendingIffConfirm ==
    pc = "loop" =>
        /\ IsSome(app.pending_action) <=> app.mode = "Confirm"
        /\ app.mode = "Confirm" =>
               /\ exit_mode(Begin(app)).mode # "Confirm"
               /\ IsNone(exit_mode(Begin(app)).pending_action)
               /\ \A yes \in BOOLEAN, ao \in ActionOutcomes, lo \in ListOutcomes :
                      LET r == execute_pending_action(SetSelectedYes(Begin(app), yes), ao, lo)
                      IN r.mode # "Confirm" /\ IsNone(r.pending_action)

\* The dialog has been cancelled with 'n': Normal mode, nothing pending.
C35_Witness ==
    /\ last = "confirm n"
    /\ app.mode = "Normal"
    /\ IsNone(app.pending_action)

\* The frames of the drill-down, oldest first: the stack, then the parent
\* context if there is one.
Frames(s) == s.navigation_stack \o s.parent_context

RECURSIVE BackTimes(_, _, _)
\* navigate_back called k times, every list request ending as lo.
BackTimes(s, k, lo) == IF k = 0 THEN s ELSE BackTimes(navigate_back(s, lo), k - 1, lo)

(***************************************************************************)
(* C36: in every reachable state the navigation stack is non-empty only if *)
(* there is a parent context; the number of frames (the breadcrumb without *)
(* the current key) is the stack length plus one with a parent context and *)
(* 0 without; navigate_back takes away exactly the newest frame and goes   *)
(* to its origin key, leaving the older frames as they were, and as many   *)
(* calls as there are frames end at the top level, whatever the refreshes  *)
(* return.                                                                 *)
(***************************************************************************)
C36_StackOnlyUnderParentContext ==
    LET depth == Len(get_breadcrumb(app)) - 1
    IN /\ app.navigation_stack # <<>> => IsSome(app.parent_context)
       /\ depth = IF IsSome(app.parent_context) THEN Len(app.navigation_stack) + 1 ELSE 0
       /\ \A lo \in ListOutcomes :
              /\ depth > 0 =>
                     LET r == navigate_back(Begin(app), lo)
                     IN /\ Frames(r) = SubSeq(Frames(app), 1, depth - 1)
                        /\ r.resource_key = Frames(app)[depth].resource_key
                        /\ r.navigation_stack # <<>> => IsSome(r.parent_context)
              /\ \A k \in 0..depth :
                     Frames(BackTimes(Begin(app), k, lo)) = SubSeq(Frames(app), 1, depth - k)
              /\ IsNone(BackTimes(Begin(app), depth, lo).parent_context)
              /\ BackTimes(Begin(app), depth, lo).navigation_stack = <<>>

\* navigate_back has returned from snapshots to disks: the frame of
\* vm-instances, which was on the stack, is the parent context again.
C36_Witness ==
    /\ last = "navigate_back"
    /\ app.resource_key = "disks"
    /\ IsSome(app.parent_context)
    /\ Unwrap(app.parent_context).resource_key = "vm-instances"
    /\ app.navigation_stack = <<>>

\* The place in the drill-down: the resource key, the parent context and the
\* navigation stack.
Place(s) == <<s.resource_key, s.parent_context, s.navigation_stack>>

\* The item refresh passes as parent item in s: the parent context's captured
\* item, or none at the top level.
ParentItem(s) == IF IsSome(s.parent_context) THEN Some(Unwrap(s.parent_context).item) ELSE None

\* navigate_to_sub_resource(key) passes its checks in s.
CanDrill(s, key) == IsSome(selected_item(s)) /\ DeclaredSubResource(s, key)

\* navigate_back from down, where navigate_to_sub_resource had led from
\* before, is back at the place of before and has listed it once, with
\* before's parent item.
BackReturnsTo(back, before) ==
    /\ Place(back) = Place(before)
    /\ back.requests = <<ListRequest(before.resource_key, ParentItem(before))>>

(***************************************************************************)
(* C37: from every reachable state, one navigate_to_sub_resource that      *)
(* passes its checks followed by one navigate_back, and two nested ones    *)
(* followed by two navigate_back (the deepest the catalog's sub-resources  *)
(* go), end with the resource key, the parent context and the navigation   *)
(* stack as they were before the first drill-down, whatever the list       *)
(* requests return; each navigate_back makes one list request, for the     *)
(* level it returns to, whose parent item is the item captured when that   *)
(* level was entered, or none at the top level.                            *)
(***************************************************************************)
C37_DrillAndBackAreLastInFirstOut ==
    \A key1 \in ResourceKeys :
        CanDrill(app, key1) =>
            \A lo1 \in ListOutcomes :
                LET down1 == navigate_to_sub_resource(Begin(app), key1, lo1)
                IN /\ ParentItem(down1) = selected_item(app)
                   /\ down1.navigation_stack = Frames(app)
                   /\ \A lo \in ListOutcomes :
                          BackReturnsTo(navigate_back(Begin(down1), lo), app)
                   /\ \A key2 \in ResourceKeys :
                          CanDrill(down1, key2) =>
                              \A lo2 \in ListOutcomes :
                                  LET down2 == navigate_to_sub_resource(Begin(down1), key2, lo2)
                                  IN /\ ParentItem(down2) = selected_item(down1)
                                     /\ \A lo3 \in ListOutcomes :
                                            LET back1 == navigate_back(Begin(down2), lo3)
                                            IN /\ BackReturnsTo(back1, down1)
                                               /\ \A lo4 \in ListOutcomes :
                                                      BackReturnsTo(navigate_back(Begin(back1), lo4), app)

\* navigate_back has returned to the top level, where its one list request,
\* passing no parent item, failed.
C37_Witness ==
    /\ last = "navigate_back"
    /\ app.resource_key = "vm-instances"
    /\ IsNone(app.parent_context)
    /\ app.navigation_stack = <<>>
    /\ app.requests = <<ListRequest("vm-instances", None)>>
    /\ IsSome(app.error)

\* Every sub-resource a catalog entry declares is itself a catalog key
\* (test_sub_resources_have_required_fields).
SubResourceTargetsExist ==
    \A key \in ResourceKeys :
        \A i \in 1..Len(Registry[key].sub_resources) :
            IsSome(get_resource(Registry[key].sub_resources[i].resource_key))

(***************************************************************************)
(* C38: in every reachable state the current resource key, and the origin  *)
(* key of every frame of the drill-down, names a definition of the         *)
(* catalog, whatever keys the callers pass; so refresh finds the           *)
(* definition and makes its list request, and no state holds the error of  *)
(* the missing-definition branch.  Every sub-resource target declared in   *)
(* the catalog is a catalog key, which navigate_to_sub_resource, checking  *)
(* only the declaration, relies on.                                        *)
(***************************************************************************)
C38_ResourceKeyInCatalog ==
    /\ SubResourceTargetsExist
    /\ IsSome(get_resource(app.resource_key))
    /\ \A i \in 1..Len(Frames(app)) : IsSome(get_resource(Frames(app)[i].resource_key))
    /\ IsSome(app.error) => Unwrap(app.error).kind # "Resource not found"
    /\ \A lo \in ListOutcomes :
           /\ refresh(Begin(app), lo).requests
                  = <<ListRequest(app.resource_key, ParentItem(app))>>
           /\ \A key \in CallKeys :
                  /\ IsSome(get_resource(navigate_to_sub_resource(Begin(app), key, lo).resource_key))
                  /\ IsSome(get_resource(navigate_to_resource(Begin(app), key, lo).resource_key))

\* navigate_to_sub_resource was called from disks, with an item selected, for
\* a key disks does not declare: the current key is still disks.
C38_Witness ==
    /\ last = "navigate_to_sub_resource"
    /\ app.resource_key = "disks"
    /\ IsSome(selected_item(app))
    /\ IsSome(app.error)
    /\ Unwrap(app.error).kind = "Not a sub-resource"

\* The operation ended with the failure on show: the error text recorded and
\* the mode Warning.
FailureOnShow(r) == IsSome(r.error) /\ r.mode = "Warning"

(***************************************************************************)
(* C39: when the list request made by select_project, by select_zone, or   *)
(* by a zone, project or resource command fails, the operation ends with   *)
(* the error text recorded and the mode Warning.                           *)
(***************************************************************************)
C39_FailedRefreshStaysOnShow ==
    \A lo \in ListOutcomes :
        ~lo.ok =>
            /\ InMode("Projects") =>
                   LET r == select_project(Begin(app), lo)
                   IN r.requests # <<>> => FailureOnShow(r)
            /\ InMode("Zones") =>
                   LET r == select_zone(Begin(app), lo)
                   IN r.requests # <<>> => FailureOnShow(r)
            /\ InMode("Command") =>
                   LET parts == SplitWhitespace(EffectiveCommand(app), <<>>)
                       r == execute_command(Begin(app), lo).app
                   IN (r.requests # <<>> /\ parts[1] # Chars["back"]) => FailureOnShow(r)

\* s once the refresh interval has elapsed with no key pressed: the clock is
\* all that moves.
IntervalElapsed(s) == [s EXCEPT !.refresh_due = TRUE]

(***************************************************************************)
(* C40: in every state where the loop waits in Normal mode with a project  *)
(* selected, no error is recorded, and needs_refresh holds as soon as the  *)
(* interval has elapsed; so with no further input the clock alone brings   *)
(* the loop to its auto-refresh.                                           *)
(***************************************************************************)
C40_IdleNormalModeComesToRefresh ==
    (InMode("Normal") /\ has_project(app)) =>
        /\ IsNone(app.error)
        /\ needs_refresh(IntervalElapsed(app))

====
